---- MODULE Spec2Model ----
(***************************************************************************)
(* A model of council_twitter_bot.py: the post composer (truncate,         *)
(* SocialMediaPost), the event-item processor (fixup_minutes,              *)
(* process_event_item) and the polling loop of main().                     *)
(*                                                                         *)
(* Python strings are sequences of one-character strings.  Python's None   *)
(* and a raised exception, where a text is expected, are the one-element   *)
(* sequences NoneText, ValueError, RuntimeError: their single element is   *)
(* not a character of any alphabet used here, so they equal no text.       *)
(***************************************************************************)
EXTENDS Integers, Sequences, FiniteSets, TLC

VARIABLES
    tr,         \* a call of truncate: its arguments and results
    rn,         \* a call of SocialMediaPost.get_plaintext_post
    fx,         \* a call of fixup_minutes
    pe,         \* a call of process_event_item
    ms,         \* a replay source (MockMinutesSource, MockGitMinutesSource)
    phase,      \* main(): "down", "running", "ended" or "crashed"
    state,      \* main(): the dict state
    eventitems, \* main(): the local variable eventitems
    file,       \* the contents of state.json
    sent,       \* per platform, the number of posts it holds
    cycle,      \* what the latest pass through the loop of main() did
    decided,    \* the Guids recorded with a decision since the last reset
    threaded,   \* an opener was published everywhere since the last reset
    creds,      \* main(): the platforms whose refresh_creds() has returned
    threads,    \* per platform, the thread published since the last reset
    at,         \* the calls of fixup_action_tense
    cl          \* a posting client, its server and its credentials file

calls == <<tr, rn, fx, pe, ms, at, cl>>
main == <<phase, state, eventitems, file, sent, cycle, decided, threaded,
          creds, threads>>
vars == <<tr, rn, fx, pe, ms, at, cl, phase, state, eventitems, file, sent,
          cycle, decided, threaded, creds, threads>>

Min(a, b) == IF a < b THEN a ELSE b
Max(a, b) == IF a > b THEN a ELSE b

NoneText == <<"None">>
ValueError == <<"ValueError">>
RuntimeError == <<"RuntimeError">>
NotRun == <<"NotRun">>
Idle == [idle |-> TRUE]

\* main() is not run
MainIdle ==
    /\ phase = "idle"
    /\ state = Idle
    /\ eventitems = Idle
    /\ file = Idle
    /\ sent = Idle
    /\ cycle = Idle
    /\ decided = {}
    /\ threaded = FALSE
    /\ creds = {}
    /\ threads = Idle

(***************************************************************************)
(* Bounds.                                                                 *)
(***************************************************************************)
MaxLen == 5
MaxComponents == 3
MaxPostLength == 8
MaxFixupItems == 3
MaxAgendaLen == 3
MaxCalls == 2
MaxPosts == 3

(***************************************************************************)
(* truncate                                                                *)
(***************************************************************************)
Chars == {"a", "b", "."}
Texts == UNION {[1..n -> Chars] : n \in 0..MaxLen}
Lengths == (0 - 1)..(MaxLen + 1)

\* text[:k], also for a negative k
PyPrefix(text, k) ==
    IF k >= 0
    THEN SubSeq(text, 1, Min(k, Len(text)))
    ELSE SubSeq(text, 1, Max(0, Len(text) + k))

\* "." * n
Dots(n) == [i \in 1..n |-> "."]

\* truncate with the comparison off by one: a text of exactly `length` is cut
TruncateAtEqual(text, length) ==
    IF length < 0 THEN ValueError
    ELSE IF Len(text) >= length
         THEN IF length < 3 THEN Dots(length)
              ELSE PyPrefix(text, length - 3) \o Dots(3)
         ELSE text

\* truncate without the branch for a length below 3
TruncateNoShort(text, length) ==
    IF length < 0 THEN ValueError
    ELSE IF Len(text) > length
         THEN PyPrefix(text, length - 3) \o Dots(3)
         ELSE text

Truncate(text, length) ==
    IF length < 0 THEN ValueError
    ELSE IF Len(text) > length
         THEN IF length < 3 THEN Dots(length)
              ELSE PyPrefix(text, length - 3) \o Dots(3)
         ELSE text

InitTruncate ==
    /\ tr \in [text : Texts, length : Lengths, out : {NotRun}, out2 : {NotRun}]
    /\ rn = Idle
    /\ fx = Idle
    /\ pe = Idle
    /\ ms = Idle
    /\ at = Idle
    /\ cl = Idle
    /\ MainIdle

\* truncate(text, length)
TruncateCall ==
    /\ tr.out = NotRun
    /\ tr' = [tr EXCEPT !.out = Truncate(tr.text, tr.length)]
    /\ UNCHANGED <<rn, fx, pe, ms, at, cl, main>>

\* truncate(truncate(text, length), length)
TruncateAgain ==
    /\ tr.out \notin {NotRun, ValueError}
    /\ tr.out2 = NotRun
    /\ tr' = [tr EXCEPT !.out2 = Truncate(tr.out, tr.length)]
    /\ UNCHANGED <<rn, fx, pe, ms, at, cl, main>>

NextTruncate == TruncateCall \/ TruncateAgain

SpecTruncate == InitTruncate /\ [][NextTruncate]_vars

HelloWorld == <<"h", "e", "l", "l", "o", " ", "w", "o", "r", "l", "d">>

\* C8: truncate(text, n) fails when n < 0, returns text unchanged when
\* len(text) <= n, otherwise n dots when n < 3 and the first n-3 characters
\* followed by "..." when n >= 3; the three examples of the specification.
C8_TruncateContract ==
    /\ tr.out # NotRun =>
        /\ tr.length < 0 => tr.out = ValueError
        /\ (tr.length >= 0 /\ Len(tr.text) <= tr.length) => tr.out = tr.text
        /\ (tr.length >= 0 /\ Len(tr.text) > tr.length) =>
            /\ Len(tr.out) = tr.length
            /\ tr.length < 3 => \A i \in 1..tr.length : tr.out[i] = "."
            /\ tr.length >= 3 =>
                /\ \A i \in 1..(tr.length - 3) : tr.out[i] = tr.text[i]
                /\ \A i \in (tr.length - 2)..tr.length : tr.out[i] = "."
    /\ Truncate(HelloWorld, 2) = <<".", ".">>
    /\ Truncate(HelloWorld, 8) = <<"h", "e", "l", "l", "o", ".", ".", ".">>
    /\ Truncate(<<"h", "i">>, 10) = <<"h", "i">>

C8_Witness ==
    /\ tr.out # NotRun
    /\ tr.length = 4
    /\ Len(tr.text) > tr.length
    /\ tr.out = <<"a", ".", ".", ".">>

\* C9: truncate is idempotent: for every text t and every n >= 0,
\* truncate(truncate(t, n), n) = truncate(t, n).
C9_TruncateIdempotent ==
    (tr.length >= 0 /\ tr.out2 # NotRun) => tr.out2 = tr.out

C9_Witness ==
    /\ tr.out2 # NotRun
    /\ tr.length \in {1, 4}
    /\ Len(tr.text) > tr.length
    /\ tr.out # tr.text

(***************************************************************************)
(* SocialMediaPost                                                         *)
(***************************************************************************)
COMPONENT_TYPE_TEXT == 0
COMPONENT_TYPE_URL == 1
COMPONENT_TYPE_HASHTAG == 2

\* SocialMediaPostComponent(component_type, text, truncate)
SocialMediaPostComponent(component_type, text, truncate) ==
    [component_type |-> component_type, text |-> text, truncate |-> truncate]

\* add_text, add_url, add_hashtag: append to self.components
AddText(components, text, truncate) ==
    Append(components, SocialMediaPostComponent(COMPONENT_TYPE_TEXT, text, truncate))
AddUrl(components, text) ==
    Append(components, SocialMediaPostComponent(COMPONENT_TYPE_URL, text, FALSE))
AddHashtag(components, text) ==
    Append(components, SocialMediaPostComponent(COMPONENT_TYPE_HASHTAG, text, FALSE))

\* a URL counted by its literal length, like every other component
ComponentLengthLiteral(c, url_length) == Len(c.text)

\* one component's term of get_post_length
ComponentLength(c, url_length) ==
    IF c.component_type = COMPONENT_TYPE_URL THEN url_length ELSE Len(c.text)

RECURSIVE PostLengthLoop(_, _, _, _)
PostLengthLoop(components, i, url_length, length) ==
    IF i > Len(components) THEN length
    ELSE PostLengthLoop(components, i + 1, url_length,
                        length + ComponentLength(components[i], url_length))

GetPostLength(components, url_length) ==
    PostLengthLoop(components, 1, url_length, 0)

\* the default url_callback and hashtag_callback
UrlCallback(prefix, url) == url
HashtagCallback(prefix, hashtag) == hashtag

\* every Text component is cut, whatever its truncate flag
ShouldTruncateAnyText(c, proposed_length, max_post_length) ==
    proposed_length > max_post_length

ShouldTruncate(c, proposed_length, max_post_length) ==
    c.truncate /\ proposed_length > max_post_length

TargetLength(component_length, proposed_length, max_post_length) ==
    LET target_length == component_length - (proposed_length - max_post_length)
    IN  IF target_length < 0 THEN 0 ELSE target_length

\* the proposed length is not updated
ProposedAfterTrimKept(proposed_length, component_length, target_length) ==
    proposed_length

ProposedAfterTrim(proposed_length, component_length, target_length) ==
    proposed_length - (component_length - target_length)

TooLong(proposed_length, max_post_length) ==
    proposed_length > max_post_length

RECURSIVE Flatten(_)
Flatten(pieces) ==
    IF pieces = <<>> THEN <<>> ELSE Head(pieces) \o Flatten(Tail(pieces))

\* The loop of get_plaintext_post from component i on.  pieces holds what
\* each component so far added to post_text, so post_text = Flatten(pieces).
RECURSIVE RenderLoop(_, _, _, _, _, _)
RenderLoop(components, i, url_length, max_post_length, proposed_length, pieces) ==
    IF i > Len(components)
    THEN [raised |-> "None", proposed_length |-> proposed_length, pieces |-> pieces]
    ELSE
        LET c == components[i]
            post_text == Flatten(pieces)
        IN  IF c.component_type = COMPONENT_TYPE_TEXT
            THEN IF ShouldTruncate(c, proposed_length, max_post_length)
                 THEN LET component_length == Len(c.text)
                          target_length ==
                              TargetLength(component_length, proposed_length,
                                           max_post_length)
                          cut == Truncate(c.text, target_length)
                      IN  IF cut = ValueError
                          THEN [raised |-> "ValueError",
                                proposed_length |-> proposed_length,
                                pieces |-> pieces]
                          ELSE RenderLoop(components, i + 1, url_length,
                                   max_post_length,
                                   ProposedAfterTrim(proposed_length,
                                       component_length, target_length),
                                   Append(pieces, cut))
                 ELSE RenderLoop(components, i + 1, url_length, max_post_length,
                                 proposed_length, Append(pieces, c.text))
            ELSE IF c.component_type = COMPONENT_TYPE_URL
            THEN RenderLoop(components, i + 1, url_length, max_post_length,
                            proposed_length,
                            Append(pieces, UrlCallback(post_text, c.text)))
            ELSE RenderLoop(components, i + 1, url_length, max_post_length,
                            proposed_length,
                            Append(pieces, HashtagCallback(post_text, c.text)))

\* get_plaintext_post: raised is "None" when post_text is returned
GetPlaintextPost(components, url_length, max_post_length) ==
    LET r == RenderLoop(components, 1, url_length, max_post_length,
                        GetPostLength(components, url_length), <<>>)
        raised == IF r.raised # "None" THEN r.raised
                  ELSE IF TooLong(r.proposed_length, max_post_length)
                       THEN "RuntimeError"
                       ELSE "None"
    IN  [raised |-> raised, post_text |-> Flatten(r.pieces), pieces |-> r.pieces]

Letters(n) == [i \in 1..n |-> "a"]
TextLens == {0, 2, 5}
UrlLens == {1, 6}
UrlWeights == {2, 4}
SampleComponents ==
    {SocialMediaPostComponent(COMPONENT_TYPE_TEXT, Letters(n), t) :
        n \in TextLens, t \in BOOLEAN}
    \cup {SocialMediaPostComponent(COMPONENT_TYPE_URL, Letters(n), FALSE) :
        n \in UrlLens}
    \cup {SocialMediaPostComponent(COMPONENT_TYPE_HASHTAG, <<"#", "a">>, FALSE)}
SamplePosts == UNION {[1..n -> SampleComponents] : n \in 0..MaxComponents}

NoRender == [raised |-> "NotRun", post_text |-> <<>>, pieces |-> <<>>]

InitRender ==
    /\ rn \in [components : SamplePosts, url_length : UrlWeights,
               max_post_length : 0..MaxPostLength, pc : {"composed"},
               length : {0}, result : {NoRender}]
    /\ tr = Idle
    /\ fx = Idle
    /\ pe = Idle
    /\ ms = Idle
    /\ at = Idle
    /\ cl = Idle
    /\ MainIdle

\* post.get_post_length(url_length)
GetPostLengthCall ==
    /\ rn.pc = "composed"
    /\ rn' = [rn EXCEPT !.pc = "measured",
                        !.length = GetPostLength(rn.components, rn.url_length)]
    /\ UNCHANGED <<tr, fx, pe, ms, at, cl, main>>

\* post.get_plaintext_post(url_length, max_post_length)
GetPlaintextPostCall ==
    /\ rn.pc = "measured"
    /\ rn' = [rn EXCEPT !.pc = "rendered",
                        !.result = GetPlaintextPost(rn.components, rn.url_length,
                                                    rn.max_post_length)]
    /\ UNCHANGED <<tr, fx, pe, ms, at, cl, main>>

NextRender == GetPostLengthCall \/ GetPlaintextPostCall

SpecRender == InitRender /\ [][NextRender]_vars

RECURSIVE SumOver(_, _)
SumOver(f, S) ==
    IF S = {} THEN 0
    ELSE LET x == CHOOSE y \in S : TRUE IN f[x] + SumOver(f, S \ {x})

IsUrl(c) == c.component_type = COMPONENT_TYPE_URL
IsTruncatable(c) == c.component_type = COMPONENT_TYPE_TEXT /\ c.truncate
Indices == DOMAIN rn.components

\* the length of what was rendered: a URL counts url_length, every other
\* component the characters emitted for it
RenderedLength ==
    SumOver([i \in DOMAIN rn.result.pieces |->
                IF IsUrl(rn.components[i]) THEN rn.url_length
                ELSE Len(rn.result.pieces[i])],
            DOMAIN rn.result.pieces)

\* what the components that are never shrunk take of the budget
FixedLength ==
    SumOver([i \in Indices |->
                IF IsUrl(rn.components[i]) THEN rn.url_length
                ELSE IF IsTruncatable(rn.components[i]) THEN 0
                ELSE Len(rn.components[i].text)],
            Indices)

Unmodified(i) == rn.result.pieces[i] = rn.components[i].text

\* C4: whenever get_plaintext_post returns a string, its rendered length,
\* each URL counted as url_length and every Text and Hashtag by the characters
\* emitted, is at most max_post_length.
C4_RenderWithinBudget ==
    (rn.pc = "rendered" /\ rn.result.raised = "None") =>
        RenderedLength <= rn.max_post_length

C4_Witness ==
    /\ rn.pc = "rendered"
    /\ rn.result.raised = "None"
    /\ rn.length > rn.max_post_length
    /\ RenderedLength = rn.max_post_length
    /\ \E i \in Indices : IsUrl(rn.components[i])
                          /\ Len(rn.components[i].text) > rn.url_length
    /\ \E i \in Indices : ~Unmodified(i) /\ Len(rn.result.pieces[i]) > 3

\* C5: when shrinking the truncatable Text components to nothing cannot bring
\* the post within max_post_length, get_plaintext_post raises; a returned
\* string is within the budget and holds every non-truncatable Text, Url and
\* Hashtag component whole.
C5_RenderFailsWhenOverBudget ==
    rn.pc = "rendered" =>
        /\ FixedLength > rn.max_post_length => rn.result.raised = "RuntimeError"
        /\ rn.result.raised = "None" =>
            /\ RenderedLength <= rn.max_post_length
            /\ Len(rn.result.pieces) = Len(rn.components)
            /\ \A i \in Indices :
                ~IsTruncatable(rn.components[i]) => Unmodified(i)

C5_Witness ==
    /\ rn.pc = "rendered"
    /\ rn.result.raised = "RuntimeError"
    /\ \E i \in Indices : /\ IsTruncatable(rn.components[i])
                          /\ Len(rn.components[i].text) > 0
                          /\ rn.result.pieces[i] = <<>>

IsFirstTruncatable(i) ==
    /\ IsTruncatable(rn.components[i])
    /\ \A j \in 1..(i - 1) : ~IsTruncatable(rn.components[j])

C7_PostLengthIsSum ==
    rn.pc # "composed" =>
        /\ rn.length =
              rn.url_length * Cardinality({i \in Indices : IsUrl(rn.components[i])})
              + SumOver([i \in Indices |-> Len(rn.components[i].text)],
                        {i \in Indices : ~IsUrl(rn.components[i])})
        /\ rn.length =
              GetPostLength([i \in Indices |->
                                rn.components[Len(rn.components) + 1 - i]],
                            rn.url_length)

C7_Witness ==
    /\ rn.pc = "measured"
    /\ Len(rn.components) = 3
    /\ \E i, j \in Indices :
        /\ IsUrl(rn.components[i])
        /\ IsUrl(rn.components[j])
        /\ Len(rn.components[i].text) < rn.url_length
        /\ Len(rn.components[j].text) > rn.url_length
    /\ \E i \in Indices : ~IsUrl(rn.components[i])

(***************************************************************************)
(* fixup_minutes                                                           *)
(***************************************************************************)
\* JSON null where an identifier is expected
Null == "null"

\* dict.get(key): None when the key is missing
DictGet(dict, key) == IF key \in DOMAIN dict THEN dict[key] ELSE NoneText

\* dict[key] = value
DictSet(dict, key, value) ==
    [k \in DOMAIN dict \cup {key} |-> IF k = key THEN value ELSE dict[k]]

\* the first agenda number seen for a matter is kept
FirstPassStepKeepFirst(matter_to_agenda_number, item) ==
    IF /\ item.EventItemMatterId # Null
       /\ item.EventItemAgendaNumber # NoneText
       /\ item.EventItemMatterId \notin DOMAIN matter_to_agenda_number
    THEN DictSet(matter_to_agenda_number, item.EventItemMatterId,
                 item.EventItemAgendaNumber)
    ELSE matter_to_agenda_number

\* the body of the first loop
FirstPassStep(matter_to_agenda_number, item) ==
    IF /\ item.EventItemMatterId # Null
       /\ item.EventItemAgendaNumber # NoneText
    THEN DictSet(matter_to_agenda_number, item.EventItemMatterId,
                 item.EventItemAgendaNumber)
    ELSE matter_to_agenda_number

RECURSIVE FirstPass(_, _, _)
FirstPass(items, i, matter_to_agenda_number) ==
    IF i > Len(items) THEN matter_to_agenda_number
    ELSE FirstPass(items, i + 1,
                   FirstPassStep(matter_to_agenda_number, items[i]))

\* the body of the second loop
SecondPassStep(matter_to_agenda_number, item) ==
    IF /\ item.EventItemMatterId # Null
       /\ item.EventItemAgendaNumber = NoneText
    THEN [item EXCEPT !.EventItemAgendaNumber =
              DictGet(matter_to_agenda_number, item.EventItemMatterId)]
    ELSE item

\* fixup_minutes(eventitems): the list as the call leaves it
FixupMinutes(items) ==
    LET matter_to_agenda_number == FirstPass(items, 1, <<>>)
    IN  [i \in DOMAIN items |->
            SecondPassStep(matter_to_agenda_number, items[i])]

MatterIds == {Null, "5", "7"}
AgendaNumbers == {NoneText, <<"B", "1">>, <<"C", "2">>}
FixupItems == [EventItemMatterId : MatterIds, EventItemAgendaNumber : AgendaNumbers]
FixupLists == UNION {[1..n -> FixupItems] : n \in 0..MaxFixupItems}

InitFixup ==
    /\ fx \in [eventitems : FixupLists, pc : {"fetched"}, before : {<<>>}]
    /\ tr = Idle
    /\ rn = Idle
    /\ pe = Idle
    /\ ms = Idle
    /\ at = Idle
    /\ cl = Idle
    /\ MainIdle

\* fixup_minutes(eventitems): the list is changed in place
FixupMinutesCall ==
    /\ fx.pc = "fetched"
    /\ fx' = [eventitems |-> FixupMinutes(fx.eventitems), pc |-> "fixed",
              before |-> fx.eventitems]
    /\ UNCHANGED <<tr, rn, pe, ms, at, cl, main>>

NextFixup == FixupMinutesCall

SpecFixup == InitFixup /\ [][NextFixup]_vars

SameMatter(a, b) ==
    a.EventItemMatterId # Null /\ a.EventItemMatterId = b.EventItemMatterId

\* C10 as stated: after fixup_minutes all items of a matter carry the same
\* agenda number, and an agenda number carried by any item of the matter
\* before the call is carried by all of them afterwards.
C10_OneAgendaNumberPerMatter ==
    fx.pc = "fixed" =>
        /\ \A i, j \in DOMAIN fx.eventitems :
            SameMatter(fx.eventitems[i], fx.eventitems[j]) =>
                fx.eventitems[i].EventItemAgendaNumber
                    = fx.eventitems[j].EventItemAgendaNumber
        /\ \A i, j \in DOMAIN fx.eventitems :
            (/\ SameMatter(fx.before[i], fx.before[j])
             /\ fx.before[i].EventItemAgendaNumber # NoneText) =>
                fx.eventitems[j].EventItemAgendaNumber
                    = fx.before[i].EventItemAgendaNumber

\* the last item of the matter of item j that came with an agenda number
LastNumbered(j) ==
    {i \in DOMAIN fx.before :
        /\ SameMatter(fx.before[j], fx.before[i])
        /\ fx.before[i].EventItemAgendaNumber # NoneText
        /\ \A k \in DOMAIN fx.before :
            (/\ SameMatter(fx.before[j], fx.before[k])
             /\ fx.before[k].EventItemAgendaNumber # NoneText) => k <= i}

\* C10, amended: fixup_minutes changes nothing but null agenda numbers of
\* items with a matter identifier: such an item gets the agenda number of the
\* last item of the snapshot with the same matter identifier and a non-null
\* agenda number, and stays null when there is none; so when the items of a
\* matter arrive with at most one distinct non-null agenda number, afterwards
\* all of them carry it.
C10_BackfillsNullAgendaNumbers ==
    fx.pc = "fixed" =>
        /\ DOMAIN fx.eventitems = DOMAIN fx.before
        /\ \A j \in DOMAIN fx.before :
            /\ fx.eventitems[j].EventItemMatterId = fx.before[j].EventItemMatterId
            /\ (fx.before[j].EventItemAgendaNumber # NoneText
                \/ fx.before[j].EventItemMatterId = Null)
                => fx.eventitems[j] = fx.before[j]
            /\ (fx.before[j].EventItemAgendaNumber = NoneText
                /\ fx.before[j].EventItemMatterId # Null) =>
                /\ \A i \in LastNumbered(j) :
                    fx.eventitems[j].EventItemAgendaNumber
                        = fx.before[i].EventItemAgendaNumber
                /\ LastNumbered(j) = {} =>
                    fx.eventitems[j].EventItemAgendaNumber = NoneText
        /\ \A m \in MatterIds \ {Null} :
            LET numbers == {fx.before[i].EventItemAgendaNumber :
                              i \in {k \in DOMAIN fx.before :
                                        fx.before[k].EventItemMatterId = m}}
                           \ {NoneText}
            IN  Cardinality(numbers) = 1 =>
                    \A j \in DOMAIN fx.eventitems :
                        fx.eventitems[j].EventItemMatterId = m =>
                            fx.eventitems[j].EventItemAgendaNumber \in numbers

C10_Witness ==
    /\ fx.pc = "fixed"
    /\ Len(fx.before) = 3
    /\ fx.before[1].EventItemMatterId = "5"
    /\ fx.before[1].EventItemAgendaNumber = NoneText
    /\ fx.before[2].EventItemMatterId = "5"
    /\ fx.before[2].EventItemAgendaNumber = <<"B", "1">>
    /\ fx.before[3].EventItemMatterId = "5"
    /\ fx.before[3].EventItemAgendaNumber = <<"C", "2">>
    /\ fx.eventitems[1].EventItemAgendaNumber = <<"C", "2">>
    /\ fx.eventitems[2].EventItemAgendaNumber = <<"B", "1">>

(***************************************************************************)
(* Text helpers of process_event_item                                      *)
(***************************************************************************)
UpperCase == <<"A", "B", "C", "D", "E", "F", "G", "H", "I", "J", "K", "L",
    "M", "N", "O", "P", "Q", "R", "S", "T", "U", "V", "W", "X", "Y", "Z">>
LowerCase == <<"a", "b", "c", "d", "e", "f", "g", "h", "i", "j", "k", "l",
    "m", "n", "o", "p", "q", "r", "s", "t", "u", "v", "w", "x", "y", "z">>

\* str.lower(), one character
LowerChar(c) ==
    IF \E i \in DOMAIN UpperCase : UpperCase[i] = c
    THEN LowerCase[CHOOSE i \in DOMAIN UpperCase : UpperCase[i] = c]
    ELSE c

\* text.lower()
Lower(text) == [i \in DOMAIN text |-> LowerChar(text[i])]

\* the characters str.split() splits at
IsSpace(c) == c \in {" ", "\n", "\t"}

RECURSIVE SplitLoop(_, _, _, _)
SplitLoop(text, i, word, parts) ==
    IF i > Len(text)
    THEN IF word = <<>> THEN parts ELSE Append(parts, word)
    ELSE IF IsSpace(text[i])
         THEN SplitLoop(text, i + 1, <<>>,
                        IF word = <<>> THEN parts ELSE Append(parts, word))
         ELSE SplitLoop(text, i + 1, Append(word, text[i]), parts)

\* text.split()
Split(text) == SplitLoop(text, 1, <<>>, <<>>)

\* sep.join(parts)
RECURSIVE Join(_, _)
Join(sep, parts) ==
    IF Len(parts) = 0 THEN <<>>
    ELSE IF Len(parts) = 1 THEN parts[1]
    ELSE parts[1] \o sep \o Join(sep, Tail(parts))

\* "{}".format(value)
Format(value) == IF value = NoneText THEN <<"N", "o", "n", "e">> ELSE value

Digits == <<"0", "1", "2", "3", "4", "5", "6", "7", "8", "9">>

IndexIn(chars, c) == CHOOSE i \in DOMAIN chars : chars[i] = c
IsIn(chars, c) == \E i \in DOMAIN chars : chars[i] = c

\* ord(c), for the characters that occur in the texts of this model
Ord(c) ==
    IF IsIn(Digits, c) THEN 47 + IndexIn(Digits, c)
    ELSE IF IsIn(UpperCase, c) THEN 64 + IndexIn(UpperCase, c)
    ELSE IF IsIn(LowerCase, c) THEN 96 + IndexIn(LowerCase, c)
    ELSE CASE c = "\t" -> 9
           [] c = "\n" -> 10
           [] c = " " -> 32
           [] c = "#" -> 35
           [] c = "," -> 44
           [] c = "-" -> 45
           [] c = "." -> 46
           [] c = "/" -> 47
           [] c = ":" -> 58
           [] c = "=" -> 61
           [] c = "?" -> 63

\* a < b for two strings
RECURSIVE StrLess(_, _)
StrLess(a, b) ==
    IF Len(b) = 0 THEN FALSE
    ELSE IF Len(a) = 0 THEN TRUE
    ELSE IF Head(a) = Head(b) THEN StrLess(Tail(a), Tail(b))
    ELSE Ord(Head(a)) < Ord(Head(b))

\* sorted(strings), of a set or of the keys of a dict
RECURSIVE Sorted(_)
Sorted(strings) ==
    IF strings = {} THEN <<>>
    ELSE LET first == CHOOSE x \in strings :
                          \A y \in strings : x = y \/ StrLess(x, y)
         IN  <<first>> \o Sorted(strings \ {first})

(***************************************************************************)
(* fixup_action_tense                                                      *)
(***************************************************************************)
IndexError == <<"IndexError">>

ACTION_TENSE_MAP ==
    {
     <<<<"A", "c", "c", "e", "p", "t", "e", "d">>,
       <<"A", "c", "c", "e", "p", "t">>>>,
     <<<<"A", "d", "j", "o", "u", "r", "n">>,
       <<"A", "d", "j", "o", "u", "r", "n">>>>,
     <<<<"A", "d", "o", "p", "t", "e", "d">>,
       <<"A", "d", "o", "p", "t">>>>,
     <<<<"A", "m", "e", "n", "d", "e", "d">>,
       <<"A", "m", "e", "n", "d">>>>,
     <<<<"A", "p", "p", "r", "o", "v", "e", "d">>,
       <<"A", "p", "p", "r", "o", "v", "e">>>>,
     <<<<"D", "e", "l", "e", "t", "e", "d">>,
       <<"D", "e", "l", "e", "t", "e">>>>,
     <<<<"P", "o", "s", "t", "p", "o", "n", "e", "d">>,
       <<"P", "o", "s", "t", "p", "o", "n", "e">>>>,
     <<<<"P", "r", "e", "s", "e", "n", "t", "e", "d">>,
       <<"P", "r", "e", "s", "e", "n", "t">>>>,
     <<<<"R", "e", "c", "o", "n", "s", "i", "d", "e", "r", "e", "d">>,
       <<"R", "e", "c", "o", "n", "s", "i", "d", "e", "r">>>>,
     <<<<"R", "e", "f", "e", "r", "r", "e", "d">>,
       <<"R", "e", "f", "e", "r">>>>,
     <<<<"W", "i", "t", "h", "d", "r", "a", "w", "n">>,
       <<"W", "i", "t", "h", "d", "r", "a", "w">>>>
    }

\* ACTION_TENSE_MAP.get(word, word)
ActionTenseGet(word) ==
    IF \E e \in ACTION_TENSE_MAP : e[1] = word
    THEN (CHOOSE e \in ACTION_TENSE_MAP : e[1] = word)[2]
    ELSE word

FixupActionTense(action_name) ==
    IF action_name = NoneText \/ action_name = <<>> THEN action_name
    ELSE LET parts == Split(action_name)
         IN  IF Len(parts) = 0 THEN IndexError
             ELSE Join(<<" ">>, [parts EXCEPT ![1] = ActionTenseGet(parts[1])])

(***************************************************************************)
(* process_event_item                                                      *)
(***************************************************************************)
PassedOnConsentAgenda == <<"p", "a", "s", "s", "e", "d", " ", "o", "n",
    " ", "c", "o", "n", "s", "e", "n", "t", " ", "a", "g", "e", "n", "d",
    "a">>
AgendaPrefixes == {<<"M", "C">>, <<"C", "C">>, <<"B">>, <<"C">>, <<"D">>}

HasPrefix(text, prefix) ==
    Len(text) >= Len(prefix) /\ SubSeq(text, 1, Len(prefix)) = prefix

\* ".*$" matched against the whole of rest: "." is any character but a line
\* break, "$" is the end of the string or the place before a final line break
DotStarDollar(rest) ==
    \E k \in 0..Len(rest) :
        /\ \A i \in 1..k : rest[i] # "\n"
        /\ \/ k = Len(rest)
           \/ k = Len(rest) - 1 /\ rest[Len(rest)] = "\n"

\* re.match(r"^(MC|CC|B|C|D).*$", agenda_number)
ReMatchAgenda(agenda_number) ==
    \E prefix \in AgendaPrefixes :
        /\ HasPrefix(agenda_number, prefix)
        /\ DotStarDollar(SubSeq(agenda_number, Len(prefix) + 1,
                                Len(agenda_number)))

\* Python's truth value of an optional string
Truthy(text) == text # NoneText /\ text # <<>>

\* previous_ei is None
NoItem == [none |-> TRUE]

\* the condition of the if statement
Fires(ei, previous_ei) ==
    /\ ei.EventItemPassedFlag # Null
    /\ (previous_ei = NoItem \/ previous_ei.EventItemPassedFlag = Null)
    /\ \/ ~Truthy(ei.EventItemAgendaNumber)
       \/ ReMatchAgenda(ei.EventItemAgendaNumber)
    /\ Lower(ei.EventItemTitle) # PassedOnConsentAgenda

\* text.split()[-1]
LastWord(text) ==
    LET parts == Split(text)
    IN  IF Len(parts) = 0 THEN IndexError ELSE parts[Len(parts)]

\* the keys of votes
VoteValues(vote_info) ==
    {vote_info[i].VoteValueName : i \in DOMAIN vote_info} \ {NoneText}

\* votes[value]
VoteLastNames(vote_info, value) ==
    {LastWord(vote_info[i].VotePersonName) :
        i \in {j \in DOMAIN vote_info : vote_info[j].VoteValueName = value}}

RECURSIVE VoteLines(_, _)
VoteLines(vote_info, values) ==
    IF Len(values) = 0 THEN <<>>
    ELSE Head(values) \o <<":", " ">>
         \o Join(<<",", " ">>, Sorted(VoteLastNames(vote_info, Head(values))))
         \o <<"\n">> \o VoteLines(vote_info, Tail(values))

\* the groups are listed whatever their labels
VoteBlockAlwaysGroups(vote_info) ==
    VoteLines(vote_info, Sorted(VoteValues(vote_info)))

VoteBlock(vote_info) ==
    IF <<"N", "a", "y">> \in VoteValues(vote_info)
       \/ <<"Y", "e", "a">> \in VoteValues(vote_info)
    THEN VoteLines(vote_info, Sorted(VoteValues(vote_info)))
    ELSE <<"V", "o", "i", "c", "e", " ", "v", "o", "t", "e", "\n">>

MoverLastName(ei) ==
    IF Truthy(ei.EventItemMover) THEN LastWord(ei.EventItemMover) ELSE NoneText

Suffix(ei) ==
    <<"\n", "A", "c", "t", "i", "o", "n", ":", " ">>
    \o Format(FixupActionTense(ei.EventItemActionName))
    \o <<" ", "(">> \o Format(MoverLastName(ei)) \o <<")", "\n">>
    \o <<"R", "e", "s", "u", "l", "t", ":", " ">>
    \o Format(ei.EventItemPassedFlagName) \o <<"\n", "\n">>
    \o VoteBlock(ei.EventItemVoteInfo)

HashtagA2Council == <<"#", "a", "2", "c", "o", "u", "n", "c", "i", "l">>

\* the post built when the condition holds
BuildPost(ei) ==
    LET numbered ==
            IF ei.EventItemAgendaNumber # NoneText
            THEN AddText(<<>>, ei.EventItemAgendaNumber \o <<":", " ">>, FALSE)
            ELSE <<>>
        titled == AddText(numbered, ei.EventItemTitle, TRUE)
        linked ==
            IF Truthy(ei.EventItemInSiteURL)
            THEN AddUrl(AddText(titled, <<"\n">>, FALSE), ei.EventItemInSiteURL)
            ELSE titled
    IN  AddHashtag(AddText(linked, Suffix(ei), FALSE), HashtagA2Council)

\* an exception raised while the post is built
BuildRaises(ei) ==
    \/ FixupActionTense(ei.EventItemActionName) = IndexError
    \/ MoverLastName(ei) = IndexError
    \/ \E i \in DOMAIN ei.EventItemVoteInfo :
        /\ ei.EventItemVoteInfo[i].VoteValueName # NoneText
        /\ LastWord(ei.EventItemVoteInfo[i].VotePersonName) = IndexError

\* process_event_item(ei, previous_ei): returned is "post", "None", or the
\* exception raised
ProcessEventItem(ei, previous_ei) ==
    IF Fires(ei, previous_ei)
    THEN IF BuildRaises(ei)
         THEN [returned |-> "IndexError", components |-> <<>>]
         ELSE [returned |-> "post", components |-> BuildPost(ei)]
    ELSE [returned |-> "None", components |-> <<>>]

PassedFlags == {Null, "0", "1"}
AgendaChars == {"M", "C", "B", "D", "X", "\n"}
AgendaTexts == UNION {[1..n -> AgendaChars] : n \in 0..MaxAgendaLen}
TitleMinutes == <<"M", "i", "n", "u", "t", "e", "s">>
TitleConsentUpper == <<"P", "A", "S", "S", "E", "D", " ", "O", "N", " ",
    "C", "O", "N", "S", "E", "N", "T", " ", "A", "G", "E", "N", "D", "A">>
TitleConsentMixed == <<"P", "a", "s", "s", "e", "d", " ", "o", "n", " ",
    "C", "o", "n", "s", "e", "n", "t", " ", "A", "g", "e", "n", "d", "a">>
TitleConsentLonger == <<"p", "a", "s", "s", "e", "d", " ", "o", "n", " ",
    "c", "o", "n", "s", "e", "n", "t", " ", "a", "g", "e", "n", "d", "a",
    " ", "2">>
Titles == {TitleMinutes, PassedOnConsentAgenda, TitleConsentUpper,
           TitleConsentMixed, TitleConsentLonger}
SampleUrl == <<"h", "t", "t", "p", "s", ":", "/", "/", "a", "2", "g", "o",
    "v", ".", "l", "e", "g", "i", "s", "t", "a", "r", ".", "c", "o", "m",
    "/", "L", "e", "g", "i", "s", "l", "a", "t", "i", "o", "n", "D", "e",
    "t", "a", "i", "l", ".", "a", "s", "p", "x", "?", "I", "D", "=", "1">>
ActionApproved == <<"A", "p", "p", "r", "o", "v", "e", "d">>
ActionAdjourn == <<"A", "d", "j", "o", "u", "r", "n">>
MoverJaneDoe == <<"J", "a", "n", "e", " ", "D", "o", "e">>
MoverJohnSmith == <<"J", "o", "h", "n", " ", "S", "m", "i", "t", "h">>
FlagNamePass == <<"P", "a", "s", "s">>
FlagNameFail == <<"F", "a", "i", "l">>
VoteYea == <<"Y", "e", "a">>
VoteNay == <<"N", "a", "y">>
SampleVotes ==
    <<[VotePersonName |-> MoverJaneDoe, VoteValueName |-> VoteYea],
      [VotePersonName |-> MoverJohnSmith, VoteValueName |-> VoteNay]>>

ProcessItems ==
    [EventItemGuid : {"g1"},
     EventItemMatterId : {Null},
     EventItemPassedFlag : PassedFlags,
     EventItemAgendaNumber : AgendaTexts \cup {NoneText},
     EventItemTitle : Titles,
     EventItemInSiteURL : {SampleUrl},
     EventItemActionName : {ActionApproved},
     EventItemMover : {MoverJaneDoe},
     EventItemPassedFlagName : {FlagNamePass},
     EventItemVoteInfo : {SampleVotes}]

InitProcess ==
    /\ \E ei \in ProcessItems :
       \E previous_ei \in
            {NoItem} \cup {[ei EXCEPT !.EventItemPassedFlag = f] : f \in PassedFlags} :
                pe = [ei |-> ei, previous_ei |-> previous_ei, outputs |-> <<>>]
    /\ tr = Idle
    /\ rn = Idle
    /\ fx = Idle
    /\ ms = Idle
    /\ at = Idle
    /\ cl = Idle
    /\ MainIdle

\* process_event_item(ei, previous_ei), called once more
ProcessEventItemCall ==
    /\ Len(pe.outputs) < MaxCalls
    /\ pe' = [pe EXCEPT !.outputs =
                 Append(pe.outputs, ProcessEventItem(pe.ei, pe.previous_ei))]
    /\ UNCHANGED <<tr, rn, fx, ms, at, cl, main>>

NextProcess == ProcessEventItemCall

SpecProcess == InitProcess /\ [][NextProcess]_vars

\* the agenda number begins with one of MC, CC, B, C, D
BeginsWithAgendaPrefix(agenda_number) ==
    \E prefix \in AgendaPrefixes :
        /\ Len(agenda_number) >= Len(prefix)
        /\ \A i \in 1..Len(prefix) : agenda_number[i] = prefix[i]

PreviousDecided ==
    pe.previous_ei # NoItem /\ pe.previous_ei.EventItemPassedFlag # Null

\* the four conditions of C3
C3_Conditions ==
    /\ pe.ei.EventItemPassedFlag # Null
    /\ ~PreviousDecided
    /\ \/ pe.ei.EventItemAgendaNumber \in {NoneText, <<>>}
       \/ BeginsWithAgendaPrefix(pe.ei.EventItemAgendaNumber)
    /\ Lower(pe.ei.EventItemTitle) # PassedOnConsentAgenda

\* C3: process_event_item(current, previous) returns a post if and only if
\* current's decision state is non-null, previous is absent or undecided,
\* current's agenda number is empty or begins with one of MC, CC, B, C, D,
\* and current's title is not, whatever its case, "passed on consent agenda";
\* with a decided previous it returns none on every call.
C3_PostIffConditions ==
    \A n \in DOMAIN pe.outputs :
        /\ pe.outputs[n].returned = "post" <=> C3_Conditions
        /\ PreviousDecided => pe.outputs[n].returned = "None"

\* What holds of the code: the same equivalence for agenda numbers that hold
\* no line break other than a final one.
ProcessPostIffConditionsOnOneLine ==
    \A n \in DOMAIN pe.outputs :
        /\ (pe.ei.EventItemAgendaNumber = NoneText
            \/ DotStarDollar(pe.ei.EventItemAgendaNumber))
            => (pe.outputs[n].returned = "post" <=> C3_Conditions)
        /\ PreviousDecided => pe.outputs[n].returned = "None"

(***************************************************************************)
(* The posting clients                                                     *)
(***************************************************************************)
TWITTER_URL_LENGTH == 23
TWITTER_MAX_POST_LENGTH == 279
MASTODON_URL_LENGTH == 23
MASTODON_MAX_POST_LENGTH == 499

\* args.posting_platforms, in the order given
PostingPlatforms == <<"twitter", "mastodon">>
PlatformNames == {PostingPlatforms[i] : i \in DOMAIN PostingPlatforms}

UrlLengthOf(platform) ==
    IF platform = "twitter" THEN TWITTER_URL_LENGTH ELSE MASTODON_URL_LENGTH
MaxPostLengthOf(platform) ==
    IF platform = "twitter" THEN TWITTER_MAX_POST_LENGTH
    ELSE MASTODON_MAX_POST_LENGTH

\* in_reply_to=None
NoToken == [none |-> TRUE]
\* the id of a post, as the platform returns it
Token(n) == [id |-> n]

\* no reply token is looked up
TokenGetNone(previous_post_ids, platform) == NoToken

\* previous_post_ids.get(platform_name)
TokenGet(previous_post_ids, platform) ==
    IF platform \in DOMAIN previous_post_ids
    THEN previous_post_ids[platform]
    ELSE NoToken

\* An attempt to publish: about is "opener" or the Guid of the item.
Attempt(platform, about, in_reply_to, result) ==
    [platform |-> platform, about |-> about, in_reply_to |-> in_reply_to,
     result |-> result]

\* client.send_tweet(message, in_reply_to): the post is rendered and sent;
\* fails is the platform refusing it.  A platform holds at most MaxPosts
\* posts and refuses more.
SendTweet(platform, about, components, in_reply_to, posts, fails) ==
    LET rendered == GetPlaintextPost(components, UrlLengthOf(platform),
                                     MaxPostLengthOf(platform))
        raised == fails \/ posts[platform] >= MaxPosts \/ rendered.raised # "None"
        token == Token(posts[platform] + 1)
    IN  [raised |-> raised,
         token |-> token,
         posts |-> IF raised THEN posts
                   ELSE [posts EXCEPT ![platform] = posts[platform] + 1],
         attempt |-> Attempt(platform, about, in_reply_to,
                             IF raised THEN NoToken ELSE token)]

\* An attempt chosen to fail: about is "none" when no attempt fails.
NoFailure == [about |-> "none", platform |-> "none"]

\* the one element of a set: { e : x \in {v} } computes v once for e
Only(S) == CHOOSE x \in S : TRUE

\* the loop of send_posts from platform i on
RECURSIVE SendPostsLoop(_, _, _, _, _, _, _, _)
SendPostsLoop(i, about, components, previous_post_ids, new_previous_post_ids, posts, log, failure) ==
    IF i > Len(PostingPlatforms)
    THEN [raised |-> FALSE, ids |-> new_previous_post_ids, posts |-> posts,
          log |-> log]
    ELSE LET platform_name == PostingPlatforms[i]
             previous_post_id == TokenGet(previous_post_ids, platform_name)
         IN  Only({
                 IF r.raised
                 THEN [raised |-> TRUE, ids |-> new_previous_post_ids,
                       posts |-> r.posts, log |-> Append(log, r.attempt)]
                 ELSE SendPostsLoop(i + 1, about, components, previous_post_ids,
                          [k \in DOMAIN new_previous_post_ids \cup {platform_name} |->
                              IF k = platform_name THEN r.token
                              ELSE new_previous_post_ids[k]],
                          r.posts, Append(log, r.attempt), failure) :
                 r \in {SendTweet(platform_name, about, components,
                                  previous_post_id, posts,
                                  failure = [about |-> about,
                                             platform |-> platform_name])}})

\* only the platforms after the first are published to
SendPostsFromSecond(about, components, previous_post_ids, posts, log, failure) ==
    SendPostsLoop(2, about, components, previous_post_ids, <<>>, posts, log,
                  failure)

\* send_posts(message, posting_clients, previous_post_ids)
SendPosts(about, components, previous_post_ids, posts, log, failure) ==
    SendPostsLoop(1, about, components, previous_post_ids, <<>>, posts, log,
                  failure)

(***************************************************************************)
(* main                                                                    *)
(***************************************************************************)
\* previous_post_ids: None
NoIds == <<>>

\* the state main() starts with, and resets to
EmptyState ==
    [event_id |-> Null, known_event_items |-> <<>>, previous_post_ids |-> NoIds]

\* state.json is absent
NoFile == [missing |-> TRUE]

\* eventitems before its first assignment, and once assigned
Unbound == [bound |-> FALSE, items |-> <<>>]
Bound(items) == [bound |-> TRUE, items |-> items]

\* the state is started anew whatever state.json holds
LoadStateIgnoringFile == EmptyState

\* state = json.load(fp), or the initial state when that fails
LoadState == IF file = NoFile THEN EmptyState ELSE file

\* known_event_items.get(guid)
KnownGet(known_event_items, guid) ==
    IF guid \in DOMAIN known_event_items THEN known_event_items[guid] ELSE NoItem

\* a Guid already known keeps its snapshot
KnownSetOnce(known_event_items, guid, ei) ==
    [g \in DOMAIN known_event_items \cup {guid} |->
        IF g \in DOMAIN known_event_items THEN known_event_items[g] ELSE ei]

\* known_event_items[guid] = ei
KnownSet(known_event_items, guid, ei) ==
    [g \in DOMAIN known_event_items \cup {guid} |->
        IF g = guid THEN ei ELSE known_event_items[g]]

\* the truth value of EventItemPassedFlag
FlagTruthy(flag) == flag = "1"

\* has_meeting_ended(eventitems, start, now), late: now > start + 12 hours
HasMeetingEnded(items, late) ==
    \/ \E i \in DOMAIN items :
        /\ items[i].EventItemActionName = ActionAdjourn
        /\ FlagTruthy(items[i].EventItemPassedFlag)
    \/ late

OpenerText == <<" ", "v", "o", "t", "i", "n", "g", " ", "r", "e", "s", "u",
    "l", "t", "s", " ", "t", "h", "r", "e", "a", "d", " ", "f", "o", "r",
    " ", "2", "0", "2", "4", "-", "0", "1", "-", "0", "1", ".", ".", ".",
    "\n", "\n", "*">>

\* the message that starts the thread
OpenerPost == AddText(AddHashtag(<<>>, HashtagA2Council), OpenerText, FALSE)

\* previous_ei = state["known_event_items"].get(guid)
PreviousOf(known_event_items, guid) == KnownGet(known_event_items, guid)

\* the item whose publish failed is recorded like one that was announced
RECURSIVE ItemsLoop(_, _, _, _)
ItemStepRecordsFailed(items, i, m, failure, ei, guid, output) ==
    IF output.returned \notin {"post", "None"}
    THEN [m EXCEPT !.raised = TRUE]
    ELSE IF output.returned = "post"
    THEN Only({
             IF r.raised
             THEN [m EXCEPT !.raised = TRUE, !.posts = r.posts, !.log = r.log,
                            !.state.known_event_items = KnownSet(@, guid, ei)]
             ELSE ItemsLoop(items, i + 1,
                      [m EXCEPT
                          !.state.previous_post_ids = r.ids,
                          !.state.known_event_items = KnownSet(@, guid, ei),
                          !.posts = r.posts,
                          !.log = r.log],
                      failure) :
             r \in {SendPosts(guid, output.components,
                              m.state.previous_post_ids, m.posts, m.log,
                              failure)}})
    ELSE ItemsLoop(items, i + 1,
             [m EXCEPT !.state.known_event_items = KnownSet(@, guid, ei)],
             failure)

\* the item ei of the loop, output being what process_event_item returned
\* for it: m is [state, posts, log, raised]
ItemStep(items, i, m, failure, ei, guid, output) ==
    IF output.returned \notin {"post", "None"}
    THEN [m EXCEPT !.raised = TRUE]
    ELSE IF output.returned = "post"
    THEN Only({
             IF r.raised
             THEN [m EXCEPT !.raised = TRUE, !.posts = r.posts, !.log = r.log]
             ELSE ItemsLoop(items, i + 1,
                      [m EXCEPT
                          !.state.previous_post_ids = r.ids,
                          !.state.known_event_items = KnownSet(@, guid, ei),
                          !.posts = r.posts,
                          !.log = r.log],
                      failure) :
             r \in {SendPosts(guid, output.components,
                              m.state.previous_post_ids, m.posts, m.log,
                              failure)}})
    ELSE ItemsLoop(items, i + 1,
             [m EXCEPT !.state.known_event_items = KnownSet(@, guid, ei)],
             failure)

\* the loop over the items from item i on
ItemsLoop(items, i, m, failure) ==
    IF i > Len(items) THEN m
    ELSE LET ei == items[i]
             guid == ei.EventItemGuid
             previous_ei == PreviousOf(m.state.known_event_items, guid)
         IN  ItemStep(items, i, m, failure, ei, guid,
                      ProcessEventItem(ei, previous_ei))

\* the try statement from eventitems = event["EventItems"] on: opened is
\* what the opening of the thread left
TryItems(event, failure, identified, reset, opened, fixed) ==
    Only({[state |-> m.state, posts |-> m.posts, log |-> m.log,
           raised |-> m.raised, reset |-> reset, items |-> Bound(fixed)] :
          m \in {ItemsLoop(fixed, 1,
                     [state |-> [identified EXCEPT
                                    !.previous_post_ids = opened.ids],
                      posts |-> opened.posts, log |-> opened.log,
                      raised |-> FALSE],
                     failure)}})

\* the try statement once the event id is stored
TryOpened(event, failure, identified, reset, opened) ==
    IF opened.raised
    THEN [state |-> identified, posts |-> opened.posts, log |-> opened.log,
          raised |-> TRUE, reset |-> reset, items |-> eventitems]
    ELSE TryItems(event, failure, identified, reset, opened,
                  FixupMinutes(event.EventItems))

\* the saved state is never taken to be of another meeting
EventIdNeverMismatches(event) == FALSE

\* state["event_id"] is not None and state["event_id"] != event["EventId"]
EventIdMismatches(event) ==
    state.event_id # Null /\ state.event_id # event.EventId

\* the body of the try statement: reset tells that the saved state was
\* cleared, items is eventitems as the body leaves it
TryBody(event, failure) ==
    LET reset == EventIdMismatches(event)
        cleared == IF reset THEN EmptyState ELSE state
        identified ==
            IF cleared.event_id = Null
            THEN [cleared EXCEPT !.event_id = event.EventId]
            ELSE cleared
    IN  TryOpened(event, failure, identified, reset,
            IF DOMAIN identified.previous_post_ids = {}
            THEN SendPosts("opener", OpenerPost, NoIds, sent, <<>>, failure)
            ELSE [raised |-> FALSE, ids |-> identified.previous_post_ids,
                  posts |-> sent, log |-> <<>>])

Guids == {"g1", "g2"}

\* The items the snapshots are made of.  The two items are of one matter;
\* the first comes without its agenda number, the second is the adjournment.
SampleItem(guid, flag) ==
    [EventItemGuid |-> guid,
     EventItemMatterId |-> "5",
     EventItemPassedFlag |-> flag,
     EventItemAgendaNumber |-> IF guid = "g1" THEN NoneText ELSE <<"B", "1">>,
     EventItemTitle |-> TitleMinutes,
     EventItemInSiteURL |-> IF guid = "g1" THEN SampleUrl ELSE NoneText,
     EventItemActionName |-> IF guid = "g1" THEN ActionApproved ELSE ActionAdjourn,
     EventItemMover |-> IF guid = "g1" THEN MoverJaneDoe ELSE NoneText,
     EventItemPassedFlagName |->
        IF flag = Null THEN NoneText
        ELSE IF flag = "1" THEN FlagNamePass ELSE FlagNameFail,
     EventItemVoteInfo |-> IF guid = "g1" /\ flag # Null THEN SampleVotes ELSE <<>>]

\* The snapshots get_minutes() returns: the meeting e1 with its two items in
\* every decision state of the first, the second adjourning or not, and
\* the meeting e2 with one item.
Snapshots ==
    {[EventId |-> "e1",
      EventItems |-> <<SampleItem("g1", f1), SampleItem("g2", f2)>>] :
        f1 \in PassedFlags, f2 \in {Null, "1"}}
    \cup {[EventId |-> "e2", EventItems |-> <<SampleItem("g1", "1")>>]}

Failures ==
    {NoFailure}
    \cup [about : {"opener"} \cup Guids, platform : PlatformNames]

\* get_meeting_start(event), in hours
MeetingStart == 1

\* datetime.timedelta(hours=12)
FAILSAFE_HOURS == 12

\* minutes_source.get_current_time(), in hours: before the start, at the
\* start, twelve hours after it, and later
Clock ==
    {MeetingStart - 1, MeetingStart, MeetingStart + FAILSAFE_HOURS,
     MeetingStart + FAILSAFE_HOURS + 1}

\* the clock is not read
NoTime == MeetingStart - 2

\* no snapshot is fetched
NoSnapshot == [EventId |-> Null, EventItems |-> <<>>]

\* the condition is taken to hold at the start too
BeforeOrAtStart(now) == now <= MeetingStart

\* now < meeting_start_time
BeforeStart(now) == now < MeetingStart

\* now > (start + datetime.timedelta(hours=12))
Late(now) == now > MeetingStart + FAILSAFE_HOURS

\* What each platform holds of the thread started since the state was last
\* cleared: the items announced on it and the token of its latest post.
NoThreads == [p \in PlatformNames |-> [announced |-> {}, latest |-> NoToken]]

\* the threads after the attempts of log
RECURSIVE ThreadsAfter(_, _)
ThreadsAfter(th, log) ==
    IF log = <<>> THEN th
    ELSE ThreadsAfter(
             IF log[1].result = NoToken THEN th
             ELSE [th EXCEPT ![log[1].platform] =
                      [announced |-> IF log[1].about = "opener" THEN @.announced
                                     ELSE @.announced \cup {log[1].about},
                       latest |-> log[1].result]],
             Tail(log))

NoCycle(kind) ==
    [kind |-> kind, event_id |-> Null, reset |-> FALSE, raised |-> FALSE,
     first |-> FALSE, resumed |-> FALSE, log |-> <<>>, now |-> NoTime,
     snapshot |-> NoSnapshot]

Init ==
    /\ tr = Idle
    /\ rn = Idle
    /\ fx = Idle
    /\ pe = Idle
    /\ ms = Idle
    /\ at = Idle
    /\ cl = Idle
    /\ phase = "down"
    /\ state = EmptyState
    /\ eventitems = Unbound
    /\ file = NoFile
    /\ sent = [p \in PlatformNames |-> 0]
    /\ cycle = NoCycle("none")
    /\ decided = {}
    /\ threaded = FALSE
    /\ creds = {}
    /\ threads = NoThreads

\* the platforms whose client was made and refreshed before platform k
RefreshedBefore(k) == {PostingPlatforms[i] : i \in 1..(k - 1)}

\* the loop is entered whatever the refreshes did
AfterStartAlwaysRuns(refreshed) == "running"

\* what follows the loop over args.posting_platforms: an exception of
\* refresh_creds() leaves main(), else the polling loop is entered
AfterStart(refreshed) ==
    IF refreshed = PlatformNames THEN "running" ELSE "crashed"

\* main() up to the loop: state.json is loaded and every client's
\* credentials are refreshed
Start ==
    /\ phase # "running"
    /\ creds' = RefreshedBefore(Len(PostingPlatforms) + 1)
    /\ phase' = AfterStart(creds')
    /\ state' = LoadState
    /\ eventitems' = Unbound
    /\ cycle' = NoCycle("start")
    /\ UNCHANGED <<calls, file, sent, decided, threaded, threads>>

\* main() up to the loop, the refresh_creds() of platform k raising: the
\* process ends
StartRefreshFails ==
    /\ phase # "running"
    /\ \E k \in DOMAIN PostingPlatforms :
        /\ creds' = RefreshedBefore(k)
        /\ phase' = AfterStart(RefreshedBefore(k))
    /\ state' = LoadState
    /\ eventitems' = Unbound
    /\ cycle' = NoCycle("start")
    /\ UNCHANGED <<calls, file, sent, decided, threaded, threads>>

\* the process is ended from outside, between two passes of the loop
Kill ==
    /\ phase = "running"
    /\ phase' = "down"
    /\ state' = EmptyState
    /\ eventitems' = Unbound
    /\ cycle' = NoCycle("kill")
    /\ creds' = {}
    /\ UNCHANGED <<calls, file, sent, decided, threaded, threads>>

\* get_minutes() raises: wait, continue.  The source is the live one, whose
\* wait is time.sleep; the wait of the replay sources is in SpecReplay.
FetchFails ==
    /\ phase = "running"
    /\ cycle' = NoCycle("fetch_failed")
    /\ UNCHANGED <<calls, phase, state, eventitems, file, sent, decided, threaded,
                   creds, threads>>

\* get_minutes() returns MEETING_OVER: break
MeetingOver ==
    /\ phase = "running"
    /\ phase' = "ended"
    /\ cycle' = NoCycle("meeting_over")
    /\ UNCHANGED <<calls, state, eventitems, file, sent, decided, threaded, creds,
                   threads>>

\* now < meeting_start_time: wait, continue
AwaitStart ==
    /\ phase = "running"
    /\ \E event \in Snapshots, now \in Clock :
        /\ BeforeStart(now)
        /\ cycle' = [NoCycle("awaiting_start") EXCEPT
                         !.event_id = event.EventId, !.now = now]
    /\ UNCHANGED <<calls, phase, state, eventitems, file, sent, decided, threaded,
                   creds, threads>>

\* The pass that processes event is the first one since the process started,
\* and state.json held the state of the same meeting when it started.
Resumes(event) ==
    /\ eventitems = Unbound
    /\ IF file = NoFile THEN FALSE ELSE file.event_id = event.EventId

\* One pass of the loop from the try statement on: the snapshot is
\* processed, the state is written to state.json, the end of the meeting is
\* tested on eventitems.  events are the snapshots get_minutes() may have
\* returned, failures the publishes that may be refused, times what the
\* clock may read.
Pass(events, failures, times) ==
    /\ phase = "running"
    /\ \E event \in events, failure \in failures :
        \E t \in {TryBody(event, failure)}, now \in times :
            /\ ~BeforeStart(now)
            /\ state' = t.state
            /\ sent' = t.posts
            /\ eventitems' = t.items
            /\ file' = t.state
            /\ cycle' = [kind |-> "processed", event_id |-> event.EventId,
                         reset |-> t.reset, raised |-> t.raised,
                         first |-> eventitems = Unbound,
                         resumed |-> Resumes(event),
                         log |-> t.log, now |-> now, snapshot |-> event]
            /\ decided' =
                  (IF t.reset THEN {} ELSE decided)
                  \cup {g \in DOMAIN t.state.known_event_items :
                          t.state.known_event_items[g].EventItemPassedFlag # Null}
            /\ threaded' =
                  \/ ~t.reset /\ threaded
                  \/ \A platform \in PlatformNames :
                      \E n \in DOMAIN t.log :
                          /\ t.log[n].about = "opener"
                          /\ t.log[n].platform = platform
                          /\ t.log[n].result # NoToken
            /\ phase' = IF t.items = Unbound THEN "crashed"
                        ELSE IF HasMeetingEnded(t.items.items, Late(now)) THEN "ended"
                        ELSE "running"
            /\ threads' = ThreadsAfter(IF t.reset THEN NoThreads ELSE threads,
                                        t.log)

\* the pass with the clock reading any time of Clock
ProcessFrom(events, failures) ==
    /\ Pass(events, failures, Clock)
    /\ UNCHANGED <<calls, creds>>

ProcessMinutes == ProcessFrom(Snapshots, Failures)

Next ==
    \/ Start
    \/ StartRefreshFails
    \/ Kill
    \/ FetchFails
    \/ MeetingOver
    \/ AwaitStart
    \/ ProcessMinutes

Spec == Init /\ [][Next]_vars

(***************************************************************************)
(* Claims about main                                                       *)
(***************************************************************************)
\* the posts a pass published: the attempts of its log that succeeded
Published(log) == {n \in DOMAIN log : log[n].result # NoToken}

\* C1: across passes that do not clear the saved state, once the Guid of an
\* item has been recorded in known_event_items with a non-null
\* EventItemPassedFlag, no later pass publishes an announcement for that
\* Guid, whatever the flag is in the later snapshots.
C1_NeverAnnouncedAgain ==
    [][(cycle'.kind = "processed" /\ ~cycle'.reset)
        => \A n \in Published(cycle'.log) : cycle'.log[n].about \notin decided]_vars

\* the first attempt of a pass on a platform
IsFirstOn(log, n) == \A k \in 1..(n - 1) : log[k].platform # log[n].platform

\* the items state.json holds with a non-null EventItemPassedFlag
PersistedDecided ==
    {g \in DOMAIN file.known_event_items :
        file.known_event_items[g].EventItemPassedFlag # Null}

\* what the claim C2 says of every resuming pass but for the opener
ResumesItemsAndReplies ==
    /\ \A n \in Published(cycle'.log) : cycle'.log[n].about \notin PersistedDecided
    /\ \A n \in DOMAIN cycle'.log :
        IsFirstOn(cycle'.log, n)
            => cycle'.log[n].in_reply_to =
                   TokenGet(file.previous_post_ids, cycle'.log[n].platform)

\* C2 as the specification states it: the first pass after a restart on the
\* same meeting publishes no opener, publishes no announcement for an item
\* state.json holds with a non-null decision, and replies to the tokens
\* state.json holds.
C2_ResumesWithoutOpener ==
    [][(cycle'.kind = "processed" /\ cycle'.resumed)
        => /\ \A n \in Published(cycle'.log) : cycle'.log[n].about # "opener"
           /\ ResumesItemsAndReplies]_vars

\* C2, amended: the first pass after a restart on the same meeting attempts
\* the opener exactly when state.json holds no reply tokens (no opener was
\* published before the stop); it publishes no announcement for an item
\* state.json holds with a non-null decision, and the first attempt on each
\* platform replies to the token state.json holds for it.
C2_ResumesFromStateFile ==
    [][(cycle'.kind = "processed" /\ cycle'.resumed)
        => /\ (\E n \in DOMAIN cycle'.log : cycle'.log[n].about = "opener")
               <=> DOMAIN file.previous_post_ids = {}
           /\ ResumesItemsAndReplies]_vars

\* A resuming pass has published an announcement as a reply to a token of
\* state.json, with no opener, while state.json held a decided item.
C2_Witness ==
    /\ cycle.kind = "processed"
    /\ cycle.resumed
    /\ \E n \in Published(cycle.log) :
        /\ cycle.log[n].about \in Guids
        /\ cycle.log[n].in_reply_to # NoToken
    /\ \A n \in DOMAIN cycle.log : cycle.log[n].about # "opener"
    /\ decided # {}

\* C11: a pass whose clock reads before the scheduled start publishes
\* nothing and changes neither the state in memory nor state.json, and the
\* loop goes on; a pass whose clock reads the start or later processes its
\* snapshot.
C11_AwaitingStartChangesNothing ==
    [][cycle'.kind \in {"awaiting_start", "processed"}
        => IF cycle'.now < MeetingStart
           THEN /\ cycle'.kind = "awaiting_start"
                /\ cycle'.log = <<>>
                /\ UNCHANGED <<state, eventitems, file, sent>>
                /\ phase' = "running"
           ELSE cycle'.kind = "processed"]_vars

\* A pass before the start has left a state with reply tokens and a written
\* state.json as they were.
C11_Witness ==
    /\ cycle.kind = "awaiting_start"
    /\ cycle.now < MeetingStart
    /\ DOMAIN state.previous_post_ids # {}
    /\ file = state

\* the snapshot holds an item with action name "Adjourn" and a truthy
\* decision
SnapshotAdjourns(snapshot) ==
    \E i \in DOMAIN snapshot.EventItems :
        /\ snapshot.EventItems[i].EventItemActionName = ActionAdjourn
        /\ snapshot.EventItems[i].EventItemPassedFlag = "1"

\* C12: a pass that processes a snapshot ends the loop normally exactly when
\* the snapshot holds an adjourning item or the clock reads more than twelve
\* hours after the start; once ended, nothing is fetched, published or
\* written: the only step is the process being started anew.
C12_EndsExactlyWhenAdjournedOrLate ==
    [][/\ cycle'.kind = "processed"
           => (phase' = "ended"
               <=> \/ SnapshotAdjourns(cycle'.snapshot)
                   \/ cycle'.now > MeetingStart + FAILSAFE_HOURS)
       /\ phase = "ended"
           => /\ cycle'.kind = "start"
              /\ UNCHANGED <<file, sent>>]_vars

(***************************************************************************)
(* The replay sources: MockMinutesSource over the files of a directory and *)
(* MockGitMinutesSource over the commits of a file.  The two classes hold  *)
(* the same code over self.files and self.commits; times are in seconds.   *)
(***************************************************************************)
MaxFiles == 3

\* minutes_source.wait(60)
WAIT_SECONDS == 60

\* self.files[self._idx], self.commits[self._idx] raises IndexError
CurrentTimeRaises(src) == src._idx >= Len(src.files)

\* get_current_time(), when it does not raise
GetCurrentTime(src) == src.files[src._idx + 1]

\* the loop of wait: raised tells that get_current_time raised IndexError
RECURSIVE WaitLoop(_, _, _)
WaitLoop(src, now, seconds) ==
    IF CurrentTimeRaises(src) THEN [raised |-> TRUE, src |-> src]
    ELSE IF GetCurrentTime(src) < now + seconds
    THEN IF src._idx >= Len(src.files)
         THEN [raised |-> FALSE, src |-> src]
         ELSE WaitLoop([src EXCEPT !._idx = @ + 1], now, seconds)
    ELSE [raised |-> FALSE, src |-> src]

\* wait(seconds)
Wait(src, seconds) ==
    IF CurrentTimeRaises(src) THEN [raised |-> TRUE, src |-> src]
    ELSE WaitLoop(src, GetCurrentTime(src), seconds)

\* get_minutes(): the log line reads get_current_time() first; unreadable is
\* json.load, or git show, raising
GetMinutes(src, unreadable) ==
    IF CurrentTimeRaises(src) THEN "IndexError"
    ELSE IF src._idx >= Len(src.files) THEN "MEETING_OVER"
    ELSE IF unreadable THEN "unreadable"
    ELSE "snapshot"

\* the times of the snapshots, in the order of the file names or commits
FileTimes == {0, 30, 60, 120}
FileLists ==
    {files \in UNION {[1..n -> FileTimes] : n \in 0..MaxFiles} :
        \A i, j \in DOMAIN files : i < j => files[i] <= files[j]}

\* the source after its construction; main() has not run its loop yet
InitReplay ==
    /\ tr = Idle
    /\ rn = Idle
    /\ fx = Idle
    /\ pe = Idle
    /\ at = Idle
    /\ cl = Idle
    /\ MainIdle
    /\ \E files \in FileLists, class \in {"MockMinutesSource", "MockGitMinutesSource"} :
        ms = [class |-> class, files |-> files, _idx |-> 0, pc |-> "loop",
              got |-> "nothing", error |-> "None"]

\* the loop of main() goes on with wait(60): the pass ends there, or the
\* process ends with the exception wait raised
AfterWait(src, w) ==
    IF w.raised
    THEN [w.src EXCEPT !.pc = "crashed", !.error = "IndexError"]
    ELSE [w.src EXCEPT !.pc = "loop"]

\* main(), lines 743-751: get_minutes() returns a snapshot, returns
\* MEETING_OVER, or raises and the handler waits
ReplayGetMinutes ==
    /\ ms.pc = "loop"
    /\ \E unreadable \in BOOLEAN :
        \E got \in {GetMinutes(ms, unreadable)} :
            ms' = IF got = "MEETING_OVER"
                  THEN [ms EXCEPT !.got = got, !.pc = "over"]
                  ELSE IF got = "snapshot"
                  THEN [ms EXCEPT !.got = got, !.pc = "fetched"]
                  ELSE AfterWait(ms, Wait([ms EXCEPT !.got = got],
                                          WAIT_SECONDS))
    /\ UNCHANGED <<tr, rn, fx, pe, at, cl, main>>

\* main(), lines 753-772: the meeting has not started
ReplayAwaitStart ==
    /\ ms.pc = "fetched"
    /\ ms' = AfterWait(ms, Wait(ms, WAIT_SECONDS))
    /\ UNCHANGED <<tr, rn, fx, pe, at, cl, main>>

\* main(), lines 774-825: the snapshot is processed; ended is what
\* has_meeting_ended returns
ReplayProcess ==
    /\ ms.pc = "fetched"
    /\ \E ended \in BOOLEAN :
        ms' = IF ended THEN [ms EXCEPT !.pc = "ended"]
              ELSE AfterWait(ms, Wait(ms, WAIT_SECONDS))
    /\ UNCHANGED <<tr, rn, fx, pe, at, cl, main>>

NextReplay ==
    \/ ReplayGetMinutes
    \/ ReplayAwaitStart
    \/ ReplayProcess

SpecReplay == InitReplay /\ [][NextReplay]_vars

\* C13: with a replay source, get_minutes returns MEETING_OVER once the
\* snapshots are exhausted and the loop ends on it: neither get_minutes nor
\* wait nor get_current_time raises IndexError, and the process does not end
\* with an uncaught exception.
C13_ReplayEndsOnMeetingOver ==
    /\ ms.got # "IndexError"
    /\ ms.pc # "crashed"
    /\ ms._idx >= Len(ms.files) => ms.pc \in {"loop", "over", "ended"}

\* C14: when get_minutes raises, the pass is skipped and the loop goes on to
\* the next fetch after the wait.
C14_FetchFailureIsSkipped ==
    ms.got \in {"IndexError", "unreadable"} => ms.pc = "loop"

\* the attempts of a log made on a platform before attempt n
EarlierOn(log, n) == {k \in 1..(n - 1) : log[k].platform = log[n].platform}

\* C15: a pass that finds in the state a meeting identifier other than the
\* snapshot's records the snapshot's identifier, keeps no known item of the
\* old meeting, announces the decided items of the snapshot whatever was
\* known of their Guids, and starts a new thread: its first attempt is an
\* opener, openers carry no reply token, and every other attempt replies to
\* a token this pass obtained.
C15_MismatchStartsAnew ==
    [][(/\ cycle'.kind = "processed"
        /\ state.event_id # Null
        /\ state.event_id # cycle'.snapshot.EventId)
        => /\ state'.event_id = cycle'.snapshot.EventId
           /\ DOMAIN state'.known_event_items \subseteq
                  {cycle'.snapshot.EventItems[i].EventItemGuid :
                      i \in DOMAIN cycle'.snapshot.EventItems}
           /\ cycle'.log # <<>>
           /\ cycle'.log[1].about = "opener"
           /\ \A n \in DOMAIN cycle'.log :
                IF cycle'.log[n].about = "opener"
                THEN cycle'.log[n].in_reply_to = NoToken
                ELSE \E k \in EarlierOn(cycle'.log, n) :
                        cycle'.log[n].in_reply_to = cycle'.log[k].result
           /\ \A platform \in DOMAIN state'.previous_post_ids :
                \E n \in Published(cycle'.log) :
                    /\ cycle'.log[n].platform = platform
                    /\ cycle'.log[n].result = state'.previous_post_ids[platform]
           /\ ~cycle'.raised =>
                \A i \in DOMAIN cycle'.snapshot.EventItems :
                    cycle'.snapshot.EventItems[i].EventItemPassedFlag # Null
                        => \E n \in Published(cycle'.log) :
                            cycle'.log[n].about =
                                cycle'.snapshot.EventItems[i].EventItemGuid]_vars

\* A pass on a snapshot of e2 has cleared the state of another meeting, opened
\* a new thread and announced g1 in it.
C15_Witness ==
    /\ cycle.kind = "processed"
    /\ cycle.reset
    /\ ~cycle.raised
    /\ cycle.snapshot.EventId = "e2"
    /\ state.event_id = "e2"
    /\ DOMAIN state.known_event_items = {"g1"}
    /\ \E n \in Published(cycle.log) :
        /\ cycle.log[n].about = "opener"
        /\ cycle.log[n].in_reply_to = NoToken
    /\ \E n \in Published(cycle.log) :
        /\ cycle.log[n].about = "g1"
        /\ cycle.log[n].in_reply_to # NoToken

\* the attempts of a log to publish the opener
OpenerAttempts(log) == {n \in DOMAIN log : log[n].about = "opener"}

\* C16: a pass that processes a snapshot attempts the opener exactly when the
\* state, once a mismatching one is cleared, holds no reply tokens; the
\* opener carries no reply token and, unless a publish fails, goes to every
\* platform.  Once an opener was published on every platform, no pass
\* attempts an opener unless it clears the state.  Every announcement of an
\* item replies to a token that an earlier publish on the platform returned.
C16_OpenerOnlyWithoutTokens ==
    [][cycle'.kind = "processed"
        => /\ OpenerAttempts(cycle'.log) # {}
               <=> \/ DOMAIN state.previous_post_ids = {}
                   \/ (state.event_id # Null
                       /\ state.event_id # cycle'.snapshot.EventId)
           /\ \A n \in OpenerAttempts(cycle'.log) :
                cycle'.log[n].in_reply_to = NoToken
           /\ (/\ OpenerAttempts(cycle'.log) # {}
               /\ OpenerAttempts(cycle'.log) \subseteq Published(cycle'.log))
               => \A platform \in PlatformNames :
                    \E n \in OpenerAttempts(cycle'.log) :
                        cycle'.log[n].platform = platform
           /\ (threaded /\ ~cycle'.reset) => OpenerAttempts(cycle'.log) = {}
           /\ \A n \in DOMAIN cycle'.log \ OpenerAttempts(cycle'.log) :
                /\ cycle'.log[n].in_reply_to # NoToken
                /\ cycle'.log[n].in_reply_to.id \in
                       1..sent'[cycle'.log[n].platform]
                /\ cycle'.log[n].result # NoToken
                       => cycle'.log[n].in_reply_to.id < cycle'.log[n].result.id
                /\ \/ \E k \in EarlierOn(cycle'.log, n) :
                        cycle'.log[n].in_reply_to = cycle'.log[k].result
                   \/ /\ ~cycle'.reset
                      /\ cycle'.log[n].in_reply_to =
                             TokenGet(state.previous_post_ids,
                                      cycle'.log[n].platform)]_vars

\* After an opener was published on every platform, a pass with no opener
\* has published an announcement as a reply.
C16_Witness ==
    /\ threaded
    /\ cycle.kind = "processed"
    /\ ~cycle.reset
    /\ OpenerAttempts(cycle.log) = {}
    /\ \E n \in Published(cycle.log) : cycle.log[n].in_reply_to # NoToken

\* the items of the snapshot of a pass, as fixup_minutes leaves them
Backfilled(snapshot) == FixupMinutes(snapshot.EventItems)

\* C17: after a pass that processed a snapshot without an error,
\* known_event_items maps the Guid of every item of the snapshot to the
\* item as fixup_minutes left it in this pass, announced or not.
C17_EveryItemRecorded ==
    [][(cycle'.kind = "processed" /\ ~cycle'.raised)
        => \A i \in DOMAIN Backfilled(cycle'.snapshot) :
            LET ei == Backfilled(cycle'.snapshot)[i]
            IN  /\ ei.EventItemGuid \in DOMAIN state'.known_event_items
                /\ state'.known_event_items[ei.EventItemGuid] = ei]_vars

\* A pass without an error has recorded g1, undecided and not announced,
\* with the agenda number it got from g2, after a pass that had recorded
\* it decided.
C17_Witness ==
    /\ cycle.kind = "processed"
    /\ ~cycle.raised
    /\ "g1" \in decided
    /\ state.known_event_items["g1"].EventItemPassedFlag = Null
    /\ state.known_event_items["g1"].EventItemAgendaNumber = <<"B", "1">>
    /\ \A n \in DOMAIN cycle.log : cycle.log[n].about # "g1"

\* the pass failed while publishing the announcement of an item
FailedAtItem(c) ==
    /\ c.kind = "processed"
    /\ c.raised
    /\ c.log # <<>>
    /\ c.log[Len(c.log)].about \in Guids
    /\ c.log[Len(c.log)].result = NoToken

\* the publishes of a pass on a platform for anything but the failed item
EarlierPublishes(c, platform) ==
    {n \in Published(c.log) :
        /\ c.log[n].platform = platform
        /\ c.log[n].about # c.log[Len(c.log)].about}

\* C18: when the handling of item k fails, state.json is written with the
\* state as it is then: the items before k are recorded as fixup_minutes left
\* them, and the reply token of each platform is the one its last publish
\* for an earlier item or the opener in this pass returned (the token the
\* pass started with when there was no such publish).
C18_FailureKeepsEarlierMutations ==
    [][FailedAtItem(cycle')
        => /\ file' = state'
           /\ eventitems' = Bound(Backfilled(cycle'.snapshot))
           /\ \A i, k \in DOMAIN Backfilled(cycle'.snapshot) :
                (/\ i < k
                 /\ Backfilled(cycle'.snapshot)[k].EventItemGuid
                        = cycle'.log[Len(cycle'.log)].about)
                => /\ Backfilled(cycle'.snapshot)[i].EventItemGuid
                          \in DOMAIN file'.known_event_items
                   /\ file'.known_event_items[
                          Backfilled(cycle'.snapshot)[i].EventItemGuid]
                          = Backfilled(cycle'.snapshot)[i]
           /\ \A platform \in PlatformNames :
                IF EarlierPublishes(cycle', platform) # {}
                THEN \E n \in EarlierPublishes(cycle', platform) :
                        /\ \A k \in EarlierPublishes(cycle', platform) : k <= n
                        /\ TokenGet(file'.previous_post_ids, platform)
                               = cycle'.log[n].result
                ELSE /\ ~cycle'.reset
                     /\ TokenGet(file'.previous_post_ids, platform)
                            = TokenGet(state.previous_post_ids, platform)]_vars

\* The announcement of g2 failed after g1 was announced in the same pass:
\* state.json holds g1 as decided and the tokens of g1's announcement.
C18_Witness ==
    /\ FailedAtItem(cycle)
    /\ cycle.log[Len(cycle.log)].about = "g2"
    /\ file = state
    /\ file.known_event_items["g1"].EventItemPassedFlag = "1"
    /\ "g2" \notin DOMAIN file.known_event_items
    /\ \A platform \in PlatformNames :
        \E n \in Published(cycle.log) :
            /\ cycle.log[n].about = "g1"
            /\ cycle.log[n].platform = platform
            /\ file.previous_post_ids[platform] = cycle.log[n].result

\* C19: when a post is published on a platform and its publish on a later
\* platform fails, the state kept after the pass, in memory and in
\* state.json, holds the token the earlier platform returned.
C19_TokenKeptPerPlatform ==
    [][cycle'.kind = "processed"
        => \A n \in Published(cycle'.log) :
            (\E k \in (n + 1)..Len(cycle'.log) :
                /\ cycle'.log[k].about = cycle'.log[n].about
                /\ cycle'.log[k].platform # cycle'.log[n].platform
                /\ cycle'.log[k].result = NoToken)
            => /\ TokenGet(state'.previous_post_ids, cycle'.log[n].platform)
                      = cycle'.log[n].result
               /\ TokenGet(file'.previous_post_ids, cycle'.log[n].platform)
                      = cycle'.log[n].result]_vars

\* C20: every pass that processes a snapshot, the first one included, ends
\* with state.json written and the loop either ended by the end of the
\* meeting or going on to the next pass: a failure in the try statement
\* never ends the process.
C20_ProcessingErrorNeverEndsProcess ==
    [][cycle'.kind = "processed"
        => /\ file' = state'
           /\ phase' \in {"running", "ended"}
           /\ phase' = "ended"
                  <=> \/ SnapshotAdjourns(cycle'.snapshot)
                      \/ cycle'.now > MeetingStart + FAILSAFE_HOURS]_vars

(***************************************************************************)
(* The order of the publishes of a pass                                    *)
(***************************************************************************)
\* the place of a platform in args.posting_platforms
PlatformIndex(platform) ==
    CHOOSE i \in DOMAIN PostingPlatforms : PostingPlatforms[i] = platform

\* the place in the snapshot of what an attempt is about: the opener comes
\* before every item
PlaceOf(snapshot, about) ==
    IF about = "opener" THEN 0
    ELSE CHOOSE i \in DOMAIN snapshot.EventItems :
            snapshot.EventItems[i].EventItemGuid = about

\* C21: the attempts of a pass, in the order they were made, start at the
\* first platform; an attempt on a platform is followed by the attempt for
\* the same post on the next platform, and the attempt on the last platform
\* by the attempt on the first platform for an item later in the snapshot.
\* An attempt that fails is the last of the pass.
C21_PublishesSequentialInOrder ==
    [][cycle'.kind = "processed"
        => /\ cycle'.log # <<>>
                => PlatformIndex(cycle'.log[1].platform) = 1
           /\ \A n \in DOMAIN cycle'.log :
                /\ cycle'.log[n].about = "opener"
                   \/ \E i \in DOMAIN cycle'.snapshot.EventItems :
                        cycle'.snapshot.EventItems[i].EventItemGuid
                            = cycle'.log[n].about
                /\ cycle'.log[n].result = NoToken => n = Len(cycle'.log)
                /\ n < Len(cycle'.log)
                    => IF PlatformIndex(cycle'.log[n].platform)
                            < Len(PostingPlatforms)
                       THEN /\ cycle'.log[n + 1].about = cycle'.log[n].about
                            /\ PlatformIndex(cycle'.log[n + 1].platform)
                                = PlatformIndex(cycle'.log[n].platform) + 1
                       ELSE /\ PlaceOf(cycle'.snapshot, cycle'.log[n + 1].about)
                                > PlaceOf(cycle'.snapshot, cycle'.log[n].about)
                            /\ PlatformIndex(cycle'.log[n + 1].platform) = 1]_vars

\* A pass announced g1 and then g2, each on twitter and then on mastodon.
C21_Witness ==
    /\ cycle.kind = "processed"
    /\ Len(cycle.log) = 4
    /\ cycle.log[1].about = "g1" /\ cycle.log[1].platform = "twitter"
    /\ cycle.log[2].about = "g1" /\ cycle.log[2].platform = "mastodon"
    /\ cycle.log[3].about = "g2" /\ cycle.log[3].platform = "twitter"
    /\ cycle.log[4].about = "g2" /\ cycle.log[4].platform = "mastodon"
    /\ \A n \in DOMAIN cycle.log : cycle.log[n].result # NoToken

(***************************************************************************)
(* The credentials at the start of main                                    *)
(***************************************************************************)
\* the kinds of pass of the polling loop
LoopKinds == {"fetch_failed", "meeting_over", "awaiting_start", "processed"}

\* C25: a snapshot is fetched, and a post published, only by a process in
\* which refresh_creds() has returned for every platform of
\* args.posting_platforms; a start in which a refresh_creds() raised ends
\* the process before the polling loop.
C25_RefreshedBeforeAnyPublish ==
    [][/\ cycle'.kind \in LoopKinds
            => creds = PlatformNames /\ creds' = PlatformNames
       /\ sent' # sent => creds = PlatformNames
       /\ (cycle'.kind = "start" /\ creds' # PlatformNames)
            => phase' = "crashed" /\ sent' = sent]_vars

\* A process in which every platform was refreshed published the opener.
C25_Witness ==
    /\ cycle.kind = "processed"
    /\ creds = PlatformNames
    /\ \E n \in Published(cycle.log) : cycle.log[n].about = "opener"

(***************************************************************************)
(* BskyApiClient: the rendering of a post with its facets                  *)
(***************************************************************************)
BSKY_URL_LENGTH == 34
BSKY_MAX_POST_LENGTH == 300

\* Characters outside ASCII are written by their code point.
EAcute == "U+00E9"
EuroSign == "U+20AC"
ThreadEmoji == "U+1F9F5"

\* the number of bytes of c.encode("utf-8"), c one character
Utf8Width(c) ==
    IF c = EAcute THEN 2
    ELSE IF c = EuroSign THEN 3
    ELSE IF c = ThreadEmoji THEN 4
    ELSE 1

\* text.encode("utf-8"): the k-th byte of the character c is <<c, k>>.  The
\* text is encoded by halves.
RECURSIVE Encode(_)
Encode(text) ==
    IF text = <<>> THEN <<>>
    ELSE IF Len(text) = 1
    THEN [k \in 1..Utf8Width(text[1]) |-> <<text[1], k>>]
    ELSE Encode(SubSeq(text, 1, Len(text) \div 2))
         \o Encode(SubSeq(text, Len(text) \div 2 + 1, Len(text)))

\* len(text.encode("utf-8"))
ByteLength(text) == Len(Encode(text))

\* the length is counted in characters
CharLength(text) == Len(text)

\* the length the facets are indexed by
FacetLength(text) == ByteLength(text)

SchemeHttp == <<"h", "t", "t", "p", ":", "/", "/">>
SchemeHttps == <<"h", "t", "t", "p", "s", ":", "/", "/">>

NoMatch == [none |-> TRUE]

\* "[\S]+$" matched against the whole of rest: one or more characters that
\* are not white space, up to the end or to a final line break
NonSpaceToEnd(rest) ==
    LET body == IF rest # <<>> /\ rest[Len(rest)] = "\n"
                THEN SubSeq(rest, 1, Len(rest) - 1)
                ELSE rest
    IN  IF body # <<>> /\ \A i \in DOMAIN body : ~IsSpace(body[i])
        THEN body
        ELSE <<>>

\* re.match(r"^(https?:\/\/)([\S]+)$", url): groups 1 and 2, or None
ReMatchUrl(url) ==
    LET scheme == IF HasPrefix(url, SchemeHttps) THEN SchemeHttps
                  ELSE IF HasPrefix(url, SchemeHttp) THEN SchemeHttp
                  ELSE <<>>
        rest == NonSpaceToEnd(SubSeq(url, Len(scheme) + 1, Len(url)))
    IN  IF scheme = <<>> \/ rest = <<>> THEN NoMatch
        ELSE [group1 |-> scheme, group2 |-> rest]

\* a facet of the post
Facet(byte_start, byte_end, feature, value) ==
    [byteStart |-> byte_start, byteEnd |-> byte_end, feature |-> feature,
     value |-> value]

\* handle_url(prefix, url): the text returned and the facet appended, or the
\* exception of match.group on None
HandleUrl(prefix, url) ==
    LET match == ReMatchUrl(url)
        shortened_url ==
            IF match = NoMatch THEN Truncate(url, BSKY_URL_LENGTH)
            ELSE Truncate(match.group2, BSKY_URL_LENGTH)
        byte_start == FacetLength(prefix)
        byte_end == byte_start + FacetLength(shortened_url)
    IN  IF match = NoMatch
        THEN [raised |-> "AttributeError", text |-> shortened_url,
              facet |-> NoMatch]
        ELSE [raised |-> "None", text |-> shortened_url,
              facet |-> Facet(byte_start, byte_end, "link",
                              match.group1 \o match.group2)]

\* handle_hashtag(prefix, hashtag)
HandleHashtag(prefix, hashtag) ==
    LET byte_start == FacetLength(prefix)
        byte_end == byte_start + FacetLength(hashtag)
    IN  [raised |-> "None", text |-> hashtag,
         facet |-> Facet(byte_start, byte_end, "tag",
                         IF HasPrefix(hashtag, <<"#">>) THEN Tail(hashtag)
                         ELSE hashtag)]

\* The loop of get_plaintext_post from component i on, called with
\* handle_url and handle_hashtag: facets is the list the callbacks append
\* to, and component[k] is the index of the component that added facets[k].
RECURSIVE BskyRenderLoop(_, _, _, _, _, _)
BskyRenderLoop(components, i, proposed_length, pieces, facets, at_component) ==
    IF i > Len(components)
    THEN [raised |-> "None", proposed_length |-> proposed_length,
          pieces |-> pieces, facets |-> facets, component |-> at_component]
    ELSE
        LET c == components[i]
            post_text == Flatten(pieces)
        IN  IF c.component_type = COMPONENT_TYPE_TEXT
            THEN IF ShouldTruncate(c, proposed_length, BSKY_MAX_POST_LENGTH)
                 THEN LET component_length == Len(c.text)
                          target_length ==
                              TargetLength(component_length, proposed_length,
                                           BSKY_MAX_POST_LENGTH)
                      IN  BskyRenderLoop(components, i + 1,
                              ProposedAfterTrim(proposed_length,
                                  component_length, target_length),
                              Append(pieces, Truncate(c.text, target_length)),
                              facets, at_component)
                 ELSE BskyRenderLoop(components, i + 1, proposed_length,
                          Append(pieces, c.text), facets, at_component)
            ELSE Only({
                     IF h.raised # "None"
                     THEN [raised |-> h.raised,
                           proposed_length |-> proposed_length,
                           pieces |-> pieces, facets |-> facets,
                           component |-> at_component]
                     ELSE BskyRenderLoop(components, i + 1, proposed_length,
                              Append(pieces, h.text), Append(facets, h.facet),
                              Append(at_component, i)) :
                     h \in {IF c.component_type = COMPONENT_TYPE_URL
                            THEN HandleUrl(post_text, c.text)
                            ELSE HandleHashtag(post_text, c.text)}})

\* message.get_plaintext_post(self.URL_LENGTH, self.MAX_POST_LENGTH,
\* handle_url, handle_hashtag), with the facets it leaves
BskyRender(components) ==
    Only({[raised |-> IF r.raised # "None" THEN r.raised
                      ELSE IF TooLong(r.proposed_length, BSKY_MAX_POST_LENGTH)
                           THEN "RuntimeError"
                           ELSE "None",
           post_text |-> Flatten(r.pieces), pieces |-> r.pieces,
           facets |-> r.facets, component |-> r.component] :
          r \in {BskyRenderLoop(components, 1,
                     GetPostLength(components, BSKY_URL_LENGTH), <<>>, <<>>,
                     <<>>)}})

(***************************************************************************)
(* TwitterApiClient and BskyApiClient: credentials and publishing          *)
(***************************************************************************)
MaxClientCalls == 4

\* exp - 60 and expires_in - 60
BSKY_EXPIRY_MARGIN == 60
TWITTER_EXPIRY_MARGIN == 60

\* the seconds an access token lives from its issue on: expires_in, or exp
\* less the time of issue
TokenLifetime == 7200

\* time.time() when a call is made, in seconds: the expiry less the margin
\* of a token issued at 0, the second after it, and a later time
Times ==
    {0, TokenLifetime - TWITTER_EXPIRY_MARGIN,
     TokenLifetime - TWITTER_EXPIRY_MARGIN + 1, 2 * TokenLifetime - 400}

\* twitter_creds.json after a json.dump that failed
Corrupt == [corrupt |-> TRUE]

\* no post was rendered
NoRendering ==
    [post_text |-> <<>>, pieces |-> <<>>, facets |-> <<>>, component |-> <<>>]

\* The client after __init__: token is the access token held (0: none),
\* expire is bearer_token_expire or access_jwt_expire, refresh_token is
\* self.refresh_token or session["refreshJwt"], creds_file is what the
\* credentials file holds.  The server has issued the token pairs
\* 1..Len(issued), issued[k] being the time the access token k expires, and
\* holds the posts of repo.
NewClient(class) ==
    [class |-> class, pc |-> "constructed", now |-> 0, token |-> 0,
     expire |-> 0, refresh_token |-> 0, creds_file |-> [refresh_token |-> 0],
     issued |-> <<>>, repo |-> <<>>, thread |-> <<>>, returned |-> NoToken,
     calls |-> 0,
     last |-> [op |-> "__init__", raised |-> "None", now |-> 0,
               expire_before |-> 0, refreshed |-> FALSE,
               refresh_raised |-> FALSE, refresh_token_before |-> 0,
               creds_file_before |-> [refresh_token |-> 0],
               in_reply_to |-> NoToken, result |-> NoToken,
               rendered |-> NoRendering]]

\* time.time() + (r["expires_in"] - 60); access_jwt_content["exp"] - 60
Expire(now, lifetime, margin) == now + lifetime - margin

\* TwitterApiClient.refresh_creds(): reply is "error" when the response
\* holds an error, else the server issues a new pair of tokens; write is
\* "ok", "open" when open(creds_filename, "w") raises, "dump" when
\* json.dump raises after the file was opened
TwitterRefreshCreds(c, now, reply, lifetime, write) ==
    IF reply = "error" THEN [c |-> c, raised |-> "RuntimeError"]
    ELSE LET served == [c EXCEPT !.issued = Append(@, now + lifetime)]
             rotated == [served EXCEPT !.refresh_token = Len(served.issued)]
         IN  IF write = "open" THEN [c |-> rotated, raised |-> "OSError"]
             ELSE IF write = "dump"
             THEN [c |-> [rotated EXCEPT !.creds_file = Corrupt],
                   raised |-> "OSError"]
             ELSE [c |-> [rotated EXCEPT
                             !.creds_file = [refresh_token |-> rotated.refresh_token],
                             !.token = Len(served.issued),
                             !.expire = Expire(now, lifetime,
                                               TWITTER_EXPIRY_MARGIN)],
                   raised |-> "None"]

\* BskyApiClient.refresh_creds(): reply is "error" when raise_for_status()
\* raises, "undecodable" when the session is stored and the decoding of its
\* accessJwt raises
BskyRefreshCreds(c, now, reply, lifetime) ==
    IF reply = "error" THEN [c |-> c, raised |-> "HTTPError"]
    ELSE LET served == [c EXCEPT !.issued = Append(@, now + lifetime)]
             session == [served EXCEPT !.token = Len(served.issued),
                                       !.refresh_token = Len(served.issued)]
         IN  IF reply = "undecodable"
             THEN [c |-> session, raised |-> "Error"]
             ELSE [c |-> [session EXCEPT
                             !.expire = Expire(now, lifetime, BSKY_EXPIRY_MARGIN)],
                   raised |-> "None"]

\* the credentials are refreshed at the expiry already
ExpiredAtExpiry(c, now) == now >= c.expire

\* time.time() > self.bearer_token_expire; time.time() > self.access_jwt_expire
Expired(c, now) == now > c.expire

\* a post the server holds: the reply it was sent with, the access token
\* that authorised it and the time it was sent
Record(reply, auth, now) == [reply |-> reply, auth |-> auth, now |-> now]

\* TwitterApiClient.send_tweet(message, in_reply_to): refresh is what the
\* call of refresh_creds() leaves when it is made, posted is "error" when
\* the response holds an error
TwitterSendTweet(c, now, components, in_reply_to, refresh, posted) ==
    LET rendered == GetPlaintextPost(components, TWITTER_URL_LENGTH,
                                     TWITTER_MAX_POST_LENGTH)
        refreshed == IF Expired(c, now) THEN refresh
                     ELSE [c |-> c, raised |-> "None"]
    IN  IF rendered.raised # "None"
        THEN [c |-> c, raised |-> rendered.raised, refreshed |-> FALSE,
              refresh_raised |-> FALSE, result |-> NoToken,
              rendered |-> NoRendering]
        ELSE IF refreshed.raised # "None"
        THEN [c |-> refreshed.c, raised |-> refreshed.raised,
              refreshed |-> TRUE, refresh_raised |-> TRUE, result |-> NoToken,
              rendered |-> NoRendering]
        ELSE IF posted = "error"
        THEN [c |-> refreshed.c, raised |-> "RuntimeError",
              refreshed |-> Expired(c, now),
              refresh_raised |-> FALSE, result |-> NoToken,
              rendered |-> NoRendering]
        ELSE [c |-> [refreshed.c EXCEPT !.repo =
                        Append(@, Record(in_reply_to, refreshed.c.token, now))],
              raised |-> "None", refreshed |-> Expired(c, now),
              refresh_raised |-> FALSE,
              result |-> Token(Len(c.repo) + 1), rendered |-> NoRendering]

\* the uri and the cid of the n-th record of the repo
Ref(n) == [uri |-> <<"at", n>>, cid |-> <<"cid", n>>]

\* the root is the parent of the post replied to
BskyRootOfParent(in_reply_to, parent) ==
    IF in_reply_to = NoToken THEN parent ELSE in_reply_to.parent

\* new_reply_info["root"]
BskyRoot(in_reply_to, parent) ==
    IF in_reply_to = NoToken THEN parent ELSE in_reply_to.root

\* BskyApiClient.send_tweet(message, in_reply_to): posted is "error" when
\* the response holds no uri
BskySendTweet(c, now, components, in_reply_to, refresh, posted) ==
    LET refreshed == IF Expired(c, now) THEN refresh
                     ELSE [c |-> c, raised |-> "None"]
    IN  IF refreshed.raised # "None"
        THEN [c |-> refreshed.c, raised |-> refreshed.raised,
              refreshed |-> TRUE, refresh_raised |-> TRUE, result |-> NoToken,
              rendered |-> NoRendering]
        ELSE Only({
            IF rendered.raised # "None"
            THEN [c |-> refreshed.c, raised |-> rendered.raised,
                  refreshed |-> Expired(c, now),
              refresh_raised |-> FALSE, result |-> NoToken,
                  rendered |-> NoRendering]
            ELSE IF posted = "error"
            THEN [c |-> refreshed.c, raised |-> "KeyError",
                  refreshed |-> Expired(c, now),
              refresh_raised |-> FALSE, result |-> NoToken,
                  rendered |-> NoRendering]
            ELSE [c |-> [refreshed.c EXCEPT !.repo =
                            Append(@, Record(in_reply_to, refreshed.c.token,
                                             now))],
                  raised |-> "None", refreshed |-> Expired(c, now),
              refresh_raised |-> FALSE,
                  result |-> [parent |-> Ref(Len(c.repo) + 1),
                              root |-> BskyRoot(in_reply_to,
                                                Ref(Len(c.repo) + 1))],
                  rendered |-> [post_text |-> rendered.post_text,
                                pieces |-> rendered.pieces,
                                facets |-> rendered.facets,
                                component |-> rendered.component]] :
            rendered \in {BskyRender(components)}})

\* The posts the clients are given: the opener with the thread emoji, and
\* announcements whose title holds characters of two and three bytes, is
\* longer than a post, or comes with a URL that has no scheme or needs no
\* shortening.
TitleCafe == <<"C", "a", "f", EAcute, " ", EuroSign, "5">>
TitleLong == <<EAcute>> \o Letters(BSKY_MAX_POST_LENGTH)
UrlNoScheme == <<"a", "2", "g", "o", "v", ".", "o", "r", "g">>
UrlShort == SchemeHttp \o UrlNoScheme
ResultLine == <<"\n", "R", "e", "s", "u", "l", "t", ":", " ", "P", "a", "s",
    "s", "\n">>

ClientItemPost(title, url) ==
    AddHashtag(
        AddText(
            AddUrl(
                AddText(
                    AddText(AddText(<<>>, <<"B", "1", ":", " ">>, FALSE),
                            title, TRUE),
                    <<"\n">>, FALSE),
                url),
            ResultLine, FALSE),
        HashtagA2Council)

ClientOpener ==
    AddHashtag(
        AddText(AddHashtag(<<>>, HashtagA2Council),
                <<" ", "t", "h", "r", "e", "a", "d", " ", ThreadEmoji, " ">>,
                FALSE),
        <<"#", "a", "2">>)

ClientPosts ==
    {ClientOpener,
     ClientItemPost(TitleCafe, SampleUrl),
     ClientItemPost(TitleLong, SampleUrl),
     ClientItemPost(TitleCafe, UrlShort),
     ClientItemPost(TitleCafe, UrlNoScheme)}

\* what the server and the file system answer to a refresh_creds()
TwitterRefreshes(c, now) ==
    {TwitterRefreshCreds(c, now, "error", TokenLifetime, "ok")}
    \cup {TwitterRefreshCreds(c, now, "ok", TokenLifetime, write) :
            write \in {"ok", "open", "dump"}}

BskyRefreshes(c, now) ==
    {BskyRefreshCreds(c, now, reply, TokenLifetime) :
        reply \in {"error", "undecodable", "ok"}}

InitClient ==
    /\ tr = Idle
    /\ rn = Idle
    /\ fx = Idle
    /\ pe = Idle
    /\ ms = Idle
    /\ at = Idle
    /\ MainIdle
    /\ \E class \in {"twitter", "bsky"} : cl = NewClient(class)

\* the client as a call leaves it
AfterCall(c, op, now, raised, refreshed, refresh_raised) ==
    [c EXCEPT !.now = now, !.calls = @ + 1,
              !.last = [op |-> op, raised |-> raised, now |-> now,
                        expire_before |-> cl.expire, refreshed |-> refreshed,
                        refresh_raised |-> refresh_raised,
                        refresh_token_before |-> cl.refresh_token,
                        creds_file_before |-> cl.creds_file,
                        in_reply_to |-> NoToken, result |-> NoToken,
                        rendered |-> NoRendering]]

\* main(): instance.refresh_creds() once the client is constructed; an
\* exception ends the process
ClientStart(now, refreshes) ==
    /\ cl.pc = "constructed"
    /\ \E r \in refreshes :
        cl' = [AfterCall(r.c, "refresh_creds", now, r.raised, TRUE,
                         r.raised # "None")
                  EXCEPT !.pc = IF r.raised = "None" THEN "running" ELSE "dead"]
    /\ UNCHANGED <<tr, rn, fx, pe, ms, at, main>>

TwitterStart ==
    /\ cl.class = "twitter"
    /\ \E now \in Times : ClientStart(now, TwitterRefreshes(cl, now))

BskyStart ==
    /\ cl.class = "bsky"
    /\ \E now \in Times : ClientStart(now, BskyRefreshes(cl, now))

\* send_posts(): client.send_tweet(message, previous_post_id), the token
\* passed being none or the one the latest publish returned.  thread holds
\* the publishes since the latest one without a token.
ClientSend(now, in_reply_to, sends) ==
    /\ cl.pc = "running"
    /\ cl.calls < MaxClientCalls
    /\ now >= cl.now
    /\ \E r \in sends :
        cl' = [AfterCall(r.c, "send_tweet", now, r.raised, r.refreshed,
                         r.refresh_raised) EXCEPT
                  !.last.in_reply_to = in_reply_to,
                  !.last.result = r.result,
                  !.last.rendered = r.rendered,
                  !.returned = IF r.raised = "None" THEN r.result ELSE @,
                  !.thread =
                      IF r.raised # "None" THEN @
                      ELSE IF in_reply_to = NoToken
                      THEN <<[in_reply_to |-> in_reply_to, token |-> r.result,
                              record |-> Len(r.c.repo)]>>
                      ELSE Append(@, [in_reply_to |-> in_reply_to,
                                      token |-> r.result,
                                      record |-> Len(r.c.repo)])]
    /\ UNCHANGED <<tr, rn, fx, pe, ms, at, main>>

TwitterSend ==
    /\ cl.class = "twitter"
    /\ \E now \in Times, in_reply_to \in {NoToken, cl.returned} :
        ClientSend(now, in_reply_to,
            {TwitterSendTweet(cl, now, components, in_reply_to, refresh, posted) :
                components \in ClientPosts,
                refresh \in TwitterRefreshes(cl, now),
                posted \in {"ok", "error"}})

BskySend ==
    /\ cl.class = "bsky"
    /\ \E now \in Times, in_reply_to \in {NoToken, cl.returned} :
        ClientSend(now, in_reply_to,
            {BskySendTweet(cl, now, components, in_reply_to, refresh, posted) :
                components \in ClientPosts,
                refresh \in BskyRefreshes(cl, now),
                posted \in {"ok", "error"}})

NextClient ==
    \/ TwitterStart
    \/ BskyStart
    \/ TwitterSend
    \/ BskySend

SpecClient == InitClient /\ [][NextClient]_vars

(***************************************************************************)
(* Claims about the clients                                                *)
(***************************************************************************)
\* C22: in a thread of the Bluesky client, begun by a publish without a
\* reply token and continued by publishes that are each given the token the
\* one before returned, every token returned has as root the reference of
\* the first post of the thread and as parent the reference of the post the
\* publish created.
C22_BskyRootIsFirstParentIsLatest ==
    cl.class = "bsky"
        => \A n \in DOMAIN cl.thread :
            /\ cl.thread[n].in_reply_to
                   = IF n = 1 THEN NoToken ELSE cl.thread[n - 1].token
            /\ cl.repo[cl.thread[n].record].reply = cl.thread[n].in_reply_to
            /\ cl.thread[n].token.root = Ref(cl.thread[1].record)
            /\ cl.thread[n].token.parent = Ref(cl.thread[n].record)

\* A thread of three posts of the Bluesky client.
C22_Witness ==
    /\ cl.class = "bsky"
    /\ Len(cl.thread) = 3
    /\ cl.thread[3].token.root = Ref(cl.thread[1].record)
    /\ cl.thread[3].token.parent # cl.thread[3].token.root

\* the margin a client subtracts from the expiry
MarginOf(class) ==
    IF class = "twitter" THEN TWITTER_EXPIRY_MARGIN ELSE BSKY_EXPIRY_MARGIN

\* C23: a publish of the Twitter or of the Bluesky client calls
\* refresh_creds only when the time is past the stored expiry (the expiry of
\* the access token less 60 seconds), a publish that is sent has called it
\* exactly when the time was past it, and every post the server holds was
\* sent with an access token whose expiry less 60 seconds had not passed.
C23_RefreshedWhenPastExpiry ==
    /\ cl.last.op = "send_tweet"
        => /\ cl.last.refreshed => cl.last.now > cl.last.expire_before
           /\ cl.last.raised = "None"
                => (cl.last.refreshed <=> cl.last.now > cl.last.expire_before)
    /\ \A n \in DOMAIN cl.repo :
        /\ cl.repo[n].auth \in DOMAIN cl.issued
        /\ cl.repo[n].now <= cl.issued[cl.repo[n].auth] - MarginOf(cl.class)

\* A post was sent at the stored expiry with the token held, the next one
\* after it with a token refreshed by the publish.
C23_Witness ==
    /\ cl.last.op = "send_tweet"
    /\ cl.last.raised = "None"
    /\ cl.last.refreshed
    /\ Len(cl.repo) = 2
    /\ cl.repo[1].now = cl.last.expire_before
    /\ cl.repo[1].auth # cl.repo[2].auth

\* C24: when the Twitter client's refresh_creds has returned, the refresh
\* token in the credentials file is the one in memory and the latest the
\* server issued; when it has raised, the file and the token in memory are
\* what they were before the call.
C24_RefreshTokenPersisted ==
    (cl.class = "twitter" /\ cl.last.refreshed)
        => IF cl.last.refresh_raised
           THEN /\ cl.creds_file = cl.last.creds_file_before
                /\ cl.refresh_token = cl.last.refresh_token_before
           ELSE /\ cl.creds_file = [refresh_token |-> cl.refresh_token]
                /\ cl.refresh_token = Len(cl.issued)

\* What holds of the code: the part of C24 about a refresh_creds that
\* returns, and the one about a refresh the server answers with an error.
TwitterRefreshPersistsOnReturn ==
    (cl.class = "twitter" /\ cl.last.refreshed)
        => /\ ~cl.last.refresh_raised
                => /\ cl.creds_file = [refresh_token |-> cl.refresh_token]
                   /\ cl.refresh_token = Len(cl.issued)
           /\ cl.last.raised = "RuntimeError" /\ cl.last.refresh_raised
                => /\ cl.creds_file = cl.last.creds_file_before
                   /\ cl.refresh_token = cl.last.refresh_token_before

\* C30: for every facet of a post the Bluesky client sent, byteStart is the
\* number of bytes of the UTF-8 encoding of the text emitted before the
\* component the facet is of, byteEnd is byteStart plus the number of bytes
\* of the text emitted for the component, and the bytes of the post text
\* from byteStart up to byteEnd are those of the emitted component.
C30_FacetsIndexBytes ==
    (cl.class = "bsky" /\ cl.last.op = "send_tweet" /\ cl.last.raised = "None")
        => /\ Len(cl.last.rendered.facets) = Len(cl.last.rendered.component)
           /\ \A k \in DOMAIN cl.last.rendered.facets :
                LET r == cl.last.rendered
                    i == r.component[k]
                    prefix == Flatten(SubSeq(r.pieces, 1, i - 1))
                IN  /\ r.facets[k].byteStart = Len(Encode(prefix))
                    /\ r.facets[k].byteEnd
                           = Len(Encode(prefix)) + Len(Encode(r.pieces[i]))
                    /\ SubSeq(Encode(r.post_text), r.facets[k].byteStart + 1,
                              r.facets[k].byteEnd)
                           = Encode(r.pieces[i])

\* A post was sent whose title, beginning with a character of two bytes, was
\* truncated, and whose shortened URL has a facet that begins further in
\* bytes than in characters.
C30_Witness ==
    /\ cl.class = "bsky"
    /\ cl.last.op = "send_tweet"
    /\ cl.last.raised = "None"
    /\ Len(cl.last.rendered.pieces) = 6
    /\ Len(cl.last.rendered.pieces[2]) < Len(TitleLong)
    /\ cl.last.rendered.pieces[2][1] = EAcute
    /\ \E k \in DOMAIN cl.last.rendered.facets :
        /\ cl.last.rendered.facets[k].feature = "link"
        /\ cl.last.rendered.facets[k].byteStart
               > Len(Flatten(SubSeq(cl.last.rendered.pieces, 1, 3)))
        /\ cl.last.rendered.facets[k].byteEnd
               = cl.last.rendered.facets[k].byteStart + BSKY_URL_LENGTH

(***************************************************************************)
(* A meeting of three items, polled again and again                        *)
(***************************************************************************)
ThreeGuids == <<"g1", "g2", "g3">>

\* the k-th item of the meeting
ThreeItem(k, flag) ==
    [EventItemGuid |-> ThreeGuids[k],
     EventItemMatterId |-> Digits[k + 1],
     EventItemPassedFlag |-> flag,
     EventItemAgendaNumber |-> <<"B", Digits[k + 1]>>,
     EventItemTitle |-> TitleMinutes,
     EventItemInSiteURL |-> SampleUrl,
     EventItemActionName |-> ActionApproved,
     EventItemMover |-> MoverJaneDoe,
     EventItemPassedFlagName |-> IF flag = Null THEN NoneText ELSE FlagNamePass,
     EventItemVoteInfo |-> IF flag = Null THEN <<>> ELSE SampleVotes]

\* The snapshots of the meeting: the first item and the second are decided
\* or not, the third is not.
ThreeItemSnapshots ==
    {[EventId |-> "e1",
      EventItems |-> <<ThreeItem(1, f1), ThreeItem(2, f2), ThreeItem(3, Null)>>] :
        f1 \in {Null, "1"}, f2 \in {Null, "1"}}

ThreeItemFailures ==
    {NoFailure}
    \cup [about : {"opener", "g1", "g2"}, platform : PlatformNames]

ProcessThreeItems == ProcessFrom(ThreeItemSnapshots, ThreeItemFailures)

NextThreeItems ==
    \/ Start
    \/ FetchFails
    \/ ProcessThreeItems

SpecThreeItems == Init /\ [][NextThreeItems]_vars

\* between the two snapshots only the second item changes, from undecided
\* to decided
OnlySecondDecides(before, after) ==
    /\ before.EventId = after.EventId
    /\ Len(before.EventItems) = 3
    /\ Len(after.EventItems) = 3
    /\ before.EventItems[1] = after.EventItems[1]
    /\ before.EventItems[3] = after.EventItems[3]
    /\ before.EventItems[2].EventItemGuid = after.EventItems[2].EventItemGuid
    /\ before.EventItems[2].EventItemPassedFlag = Null
    /\ after.EventItems[2].EventItemPassedFlag = "1"

\* C26: when two passes that follow each other process, without an error,
\* two snapshots of a meeting of three items between which only the second
\* item changes, from undecided to decided, the second pass publishes one
\* post on each platform and no other: the announcement of the second item,
\* as a reply to the token the platform had after the first pass; and
\* state.json then holds the second item's decided snapshot under its Guid
\* and the tokens these posts returned.
C26_OneReplyForTheItemDecided ==
    [][(/\ cycle.kind = "processed"
        /\ ~cycle.raised
        /\ cycle'.kind = "processed"
        /\ ~cycle'.raised
        /\ OnlySecondDecides(cycle.snapshot, cycle'.snapshot))
        => /\ Len(cycle'.log) = Len(PostingPlatforms)
           /\ \A i \in DOMAIN PostingPlatforms :
                /\ cycle'.log[i].platform = PostingPlatforms[i]
                /\ cycle'.log[i].about
                       = cycle'.snapshot.EventItems[2].EventItemGuid
                /\ cycle'.log[i].in_reply_to # NoToken
                /\ cycle'.log[i].in_reply_to
                       = file.previous_post_ids[PostingPlatforms[i]]
                /\ cycle'.log[i].result # NoToken
                /\ sent'[PostingPlatforms[i]] = sent[PostingPlatforms[i]] + 1
                /\ file'.previous_post_ids[PostingPlatforms[i]]
                       = cycle'.log[i].result
           /\ file' = state'
           /\ file'.known_event_items[
                  cycle'.snapshot.EventItems[2].EventItemGuid]
                  = cycle'.snapshot.EventItems[2]]_vars

\* The first item was announced in an earlier pass; the latest pass
\* published the announcement of the second item and nothing else, and
\* state.json holds the three items, the second decided.
C26_Witness ==
    /\ cycle.kind = "processed"
    /\ ~cycle.raised
    /\ Len(cycle.log) = 2
    /\ \A n \in DOMAIN cycle.log :
        /\ cycle.log[n].about = "g2"
        /\ cycle.log[n].result # NoToken
        /\ cycle.log[n].in_reply_to # NoToken
    /\ DOMAIN file.known_event_items = {"g1", "g2", "g3"}
    /\ file.known_event_items["g1"].EventItemPassedFlag = "1"
    /\ file.known_event_items["g2"] = ThreeItem(2, "1")
    /\ \A platform \in PlatformNames : sent[platform] = 3

(***************************************************************************)
(* A publish that fails for an item                                        *)
(***************************************************************************)
\* the Guid of the item whose publish failed in the pass c
FailedGuid(c) == c.log[Len(c.log)].about

\* the places of the item guid in a list of items
PlacesOf(items, guid) == {i \in DOMAIN items : items[i].EventItemGuid = guid}

\* the pass c handled the item guid: no error ended it before
Handled(c, guid) ==
    \/ ~c.raised
    \/ /\ c.log # <<>>
       /\ FailedGuid(c) \in Guids
       /\ \E i \in PlacesOf(c.snapshot.EventItems, guid),
             k \in PlacesOf(c.snapshot.EventItems, FailedGuid(c)) : i <= k

\* C27: when the publish of the announcement of item k fails, nothing is
\* published after it in that pass, and item k is left in
\* known_event_items as it was before the pass (absent when the pass cleared
\* the state); the next pass, when it reaches item k, publishes its
\* announcement exactly when process_event_item announces the item against
\* that earlier snapshot.
C27_FailedItemIsRetried ==
    [][/\ FailedAtItem(cycle')
            => /\ \A n \in DOMAIN cycle'.log :
                    cycle'.log[n].result = NoToken => n = Len(cycle'.log)
               /\ KnownGet(state'.known_event_items, FailedGuid(cycle'))
                      = IF cycle'.reset THEN NoItem
                        ELSE KnownGet(state.known_event_items, FailedGuid(cycle'))
               /\ file' = state'
       /\ (/\ FailedAtItem(cycle)
           /\ cycle'.kind = "processed"
           /\ ~cycle'.reset
           /\ PlacesOf(cycle'.snapshot.EventItems, FailedGuid(cycle)) # {}
           /\ Handled(cycle', FailedGuid(cycle)))
            => \A i \in PlacesOf(cycle'.snapshot.EventItems, FailedGuid(cycle)) :
                (\E n \in DOMAIN cycle'.log :
                    cycle'.log[n].about = FailedGuid(cycle))
                <=> Fires(Backfilled(cycle'.snapshot)[i],
                          KnownGet(state.known_event_items, FailedGuid(cycle)))]_vars

\* In the meeting e2 the announcement of g1 was published on twitter and
\* refused by mastodon; the next pass has published it again, on twitter as
\* a reply to the opener since the token of the first attempt was not kept.
C27_Witness ==
    /\ cycle.kind = "processed"
    /\ ~cycle.raised
    /\ state.event_id = "e2"
    /\ sent["twitter"] = 3
    /\ sent["mastodon"] = 2
    /\ Len(cycle.log) = 2
    /\ cycle.log[1] = Attempt("twitter", "g1", Token(1), Token(3))
    /\ cycle.log[2].about = "g1"
    /\ cycle.log[2].result = Token(2)
    /\ state.known_event_items["g1"].EventItemPassedFlag = "1"

(***************************************************************************)
(* The vote block of an announcement                                       *)
(***************************************************************************)
MaxVotes == 3

VoteAbsent == <<"A", "b", "s", "e", "n", "t">>
VoterAnnDoe == <<"A", "n", "n", " ", " ", "D", "o", "e">>

\* EventItemVoteInfo: one record per vote, VoteValueName being null for a
\* vote without a value
VoteRecords ==
    [VotePersonName : {MoverJaneDoe, MoverJohnSmith, VoterAnnDoe},
     VoteValueName : {VoteYea, VoteNay, VoteAbsent, NoneText}]
VoteLists == UNION {[1..n -> VoteRecords] : n \in 0..MaxVotes}

\* a decided item, seen for the first time, with the votes vote_info
VotedItem(vote_info) ==
    [EventItemGuid |-> "g1",
     EventItemMatterId |-> Null,
     EventItemPassedFlag |-> "1",
     EventItemAgendaNumber |-> NoneText,
     EventItemTitle |-> TitleMinutes,
     EventItemInSiteURL |-> NoneText,
     EventItemActionName |-> ActionApproved,
     EventItemMover |-> MoverJaneDoe,
     EventItemPassedFlagName |-> FlagNamePass,
     EventItemVoteInfo |-> vote_info]

InitVotes ==
    /\ \E vote_info \in VoteLists :
        pe = [ei |-> VotedItem(vote_info), previous_ei |-> NoItem,
              outputs |-> <<>>]
    /\ tr = Idle
    /\ rn = Idle
    /\ fx = Idle
    /\ ms = Idle
    /\ at = Idle
    /\ cl = Idle
    /\ MainIdle

SpecVotes == InitVotes /\ [][NextProcess]_vars

\* the lines of a text that ends each of them with a line break
RECURSIVE LinesLoop(_, _, _, _)
LinesLoop(text, i, line, lines) ==
    IF i > Len(text) THEN lines
    ELSE IF text[i] = "\n"
    THEN LinesLoop(text, i + 1, <<>>, Append(lines, line))
    ELSE LinesLoop(text, i + 1, Append(line, text[i]), lines)
Lines(text) == LinesLoop(text, 1, <<>>, <<>>)

\* what precedes the vote block in the last text of the announcement
BeforeVotes ==
    <<"\n", "A", "c", "t", "i", "o", "n", ":", " ", "A", "p", "p", "r", "o",
      "v", "e", " ", "(", "D", "o", "e", ")", "\n", "R", "e", "s", "u", "l",
      "t", ":", " ", "P", "a", "s", "s", "\n", "\n">>

\* the vote block of the announcement components
VoteBlockOf(components) ==
    LET text == components[Len(components) - 1].text
    IN  SubSeq(text, Len(BeforeVotes) + 1, Len(text))

\* the strings of S in alphabetical order
Ascending(S) ==
    CHOOSE seq \in [1..Cardinality(S) -> S] :
        \A i, j \in 1..Cardinality(S) : i < j => StrLess(seq[i], seq[j])

\* the labels of the votes that have one
Labels(vote_info) ==
    {vote_info[i].VoteValueName :
        i \in {j \in DOMAIN vote_info : vote_info[j].VoteValueName # NoneText}}

\* the last names of those who voted label
LastNamesOf(vote_info, label) ==
    {LET words == Split(vote_info[i].VotePersonName) IN words[Len(words)] :
        i \in {j \in DOMAIN vote_info : vote_info[j].VoteValueName = label}}

\* the lines the claim describes
ExpectedVoteLines(vote_info) ==
    IF VoteYea \notin Labels(vote_info) /\ VoteNay \notin Labels(vote_info)
    THEN << <<"V", "o", "i", "c", "e", " ", "v", "o", "t", "e">> >>
    ELSE [n \in 1..Cardinality(Labels(vote_info)) |->
            Ascending(Labels(vote_info))[n] \o <<":", " ">>
            \o Join(<<",", " ">>,
                    Ascending(LastNamesOf(vote_info,
                                          Ascending(Labels(vote_info))[n])))]

\* C28: the vote block of an announcement is, line by line, one line
\* "label: last names" per label of a vote that has one, the labels in
\* alphabetical order and the distinct last names of a label in alphabetical
\* order, joined by ", "; it is the one line "Voice vote" when no label is
\* "Yea" or "Nay".  For the votes (Jane Doe, Yea), (John Smith, Nay) the
\* block is "Nay: Smith" followed by "Yea: Doe".
C28_VoteBlockGroupsAndSorts ==
    \A n \in DOMAIN pe.outputs :
        /\ pe.outputs[n].returned = "post"
        /\ SubSeq(pe.outputs[n].components[
                      Len(pe.outputs[n].components) - 1].text,
                  1, Len(BeforeVotes)) = BeforeVotes
        /\ VoteBlockOf(pe.outputs[n].components)
               = Flatten([k \in DOMAIN ExpectedVoteLines(pe.ei.EventItemVoteInfo) |->
                            ExpectedVoteLines(pe.ei.EventItemVoteInfo)[k]
                            \o <<"\n">>])
        /\ pe.ei.EventItemVoteInfo = SampleVotes
            => Lines(VoteBlockOf(pe.outputs[n].components))
                   = << <<"N", "a", "y", ":", " ", "S", "m", "i", "t", "h">>,
                        <<"Y", "e", "a", ":", " ", "D", "o", "e">> >>

\* An announcement whose votes are two Yea by voters named Doe, one without
\* a value and none Nay: the block is the one line "Yea: Doe".
C28_Witness ==
    /\ Len(pe.outputs) > 0
    /\ Len(pe.ei.EventItemVoteInfo) = 3
    /\ \E i, j, k \in DOMAIN pe.ei.EventItemVoteInfo :
        /\ pe.ei.EventItemVoteInfo[i] =
               [VotePersonName |-> MoverJaneDoe, VoteValueName |-> VoteYea]
        /\ pe.ei.EventItemVoteInfo[j] =
               [VotePersonName |-> VoterAnnDoe, VoteValueName |-> VoteYea]
        /\ pe.ei.EventItemVoteInfo[k] =
               [VotePersonName |-> MoverJohnSmith, VoteValueName |-> NoneText]
    /\ Lines(VoteBlockOf(pe.outputs[1].components))
           = << <<"Y", "e", "a", ":", " ", "D", "o", "e">> >>

(***************************************************************************)
(* fixup_action_tense, called on its own                                   *)
(***************************************************************************)
WordAmended == <<"A", "m", "e", "n", "d", "e", "d">>
WordMystery == <<"M", "y", "s", "t", "e", "r", "y">>
WordVerb == <<"V", "e", "r", "b">>
WordFoo == <<"F", "o", "o">>
TenseWords == {ActionApproved, WordAmended, ActionAdjourn, WordMystery, WordVerb}
TenseGaps == {<<" ">>, <<" ", " ">>, <<"\n">>}

\* The action names: none, empty, blank, one word, one word after a blank,
\* two words with one blank, two blanks or a line break between them, and
\* three words.
ActionNames ==
    {NoneText, <<>>, <<" ">>}
    \cup TenseWords
    \cup {<<" ">> \o w : w \in TenseWords}
    \cup {w1 \o gap \o w2 : w1 \in TenseWords, gap \in TenseGaps, w2 \in TenseWords}
    \cup {WordMystery \o <<" ">> \o WordVerb \o <<" ">> \o WordFoo}

InitTense ==
    /\ \E action_name \in ActionNames :
        at = [action_name |-> action_name, outputs |-> <<>>]
    /\ tr = Idle
    /\ rn = Idle
    /\ fx = Idle
    /\ pe = Idle
    /\ ms = Idle
    /\ cl = Idle
    /\ MainIdle

\* fixup_action_tense(action_name), called once more
FixupActionTenseCall ==
    /\ Len(at.outputs) < MaxCalls
    /\ at' = [at EXCEPT !.outputs =
                 Append(at.outputs, FixupActionTense(at.action_name))]
    /\ UNCHANGED <<tr, rn, fx, pe, ms, cl, main>>

NextTense == FixupActionTenseCall

SpecTense == InitTense /\ [][NextTense]_vars

\* the place of the first character of text that is not white space, and of
\* the first white space after it (one past the end when there is none)
FirstWordStart(text) ==
    IF \E i \in DOMAIN text : ~IsSpace(text[i])
    THEN CHOOSE i \in DOMAIN text :
            ~IsSpace(text[i]) /\ \A j \in 1..(i - 1) : IsSpace(text[j])
    ELSE Len(text) + 1
FirstWordEnd(text) ==
    IF \E i \in FirstWordStart(text)..Len(text) : IsSpace(text[i])
    THEN CHOOSE i \in FirstWordStart(text)..Len(text) :
            IsSpace(text[i])
            /\ \A j \in FirstWordStart(text)..(i - 1) : ~IsSpace(text[j])
    ELSE Len(text) + 1

\* text with its first word replaced by its imperative, all else kept
FirstWordSubstituted(text) ==
    IF FirstWordStart(text) > Len(text) THEN text
    ELSE SubSeq(text, 1, FirstWordStart(text) - 1)
         \o ActionTenseGet(SubSeq(text, FirstWordStart(text),
                                  FirstWordEnd(text) - 1))
         \o SubSeq(text, FirstWordEnd(text), Len(text))

\* C29: fixup_action_tense returns a null or empty action name as it is,
\* and any other with its first white-space-delimited word replaced by the
\* imperative the mapping gives for it (the word itself when it has none)
\* and all the rest of the string, its white space included, unchanged.
C29_OnlyFirstWordSubstituted ==
    \A n \in DOMAIN at.outputs :
        at.outputs[n] =
            IF at.action_name \in {NoneText, <<>>} THEN at.action_name
            ELSE FirstWordSubstituted(at.action_name)

\* a text of words with one blank between them and none around them
SingleSpaced(text) ==
    /\ text # <<>>
    /\ ~IsSpace(text[1])
    /\ ~IsSpace(text[Len(text)])
    /\ \A i \in DOMAIN text :
        IsSpace(text[i]) => text[i] = " " /\ ~IsSpace(text[i + 1])

\* What holds of the code: the same for the null and the empty name and for
\* the names whose words have exactly one blank between them; the examples
\* of C29 are of that kind.
TenseOnSingleSpacedNames ==
    \A n \in DOMAIN at.outputs :
        /\ at.action_name \in {NoneText, <<>>}
            => at.outputs[n] = at.action_name
        /\ (at.action_name # NoneText /\ SingleSpaced(at.action_name))
            => at.outputs[n] = FirstWordSubstituted(at.action_name)
        /\ at.action_name = ActionApproved
            => at.outputs[n] = <<"A", "p", "p", "r", "o", "v", "e">>
        /\ at.action_name = WordAmended
            => at.outputs[n] = <<"A", "m", "e", "n", "d">>
        /\ at.action_name = WordMystery \o <<" ">> \o WordVerb \o <<" ">> \o WordFoo
            => at.outputs[n] = at.action_name

(***************************************************************************)
(* The threads across passes                                               *)
(***************************************************************************)
\* what the platforms hold when attempt n of the pass c is made: th is what
\* they held before the pass
ThreadsBefore(th, c, n) ==
    ThreadsAfter(IF c.reset THEN NoThreads ELSE th, SubSeq(c.log, 1, n - 1))

\* C31: in the passes that follow each other without the state being
\* cleared, passes in which a publish failed on one platform after another
\* platform accepted the post included, no platform is sent the
\* announcement of a Guid that it has accepted before.
C31_AnnouncedOncePerPlatform ==
    [][cycle'.kind = "processed"
        => \A n \in Published(cycle'.log) :
            cycle'.log[n].about # "opener"
            => cycle'.log[n].about
                   \notin ThreadsBefore(threads, cycle', n)[
                              cycle'.log[n].platform].announced]_vars

\* What holds of the code: an announcement is repeated on a platform only
\* for a Guid that the state does not hold with a decision, because the
\* pass that announced it failed on a later platform and did not record it,
\* or because a later snapshot held the item without a decision.
RepeatedOnlyWhenNotRecorded ==
    [][cycle'.kind = "processed"
        => \A n \in Published(cycle'.log) :
            (/\ cycle'.log[n].about # "opener"
             /\ cycle'.log[n].about
                    \in ThreadsBefore(threads, cycle', n)[
                            cycle'.log[n].platform].announced)
            => /\ ~cycle'.reset
               /\ \/ cycle'.log[n].about \notin DOMAIN state.known_event_items
                  \/ state.known_event_items[cycle'.log[n].about]
                         .EventItemPassedFlag = Null]_vars

\* C32: every attempt to publish on a platform that holds a post of the
\* thread carries as reply token the token of the latest post the platform
\* accepted, so the thread of each platform is one chain; this holds from
\* pass to pass and after a pass that failed on a later platform.
C32_RepliesToLatestOfPlatform ==
    [][cycle'.kind = "processed"
        => \A n \in DOMAIN cycle'.log :
            ThreadsBefore(threads, cycle', n)[cycle'.log[n].platform].latest
                # NoToken
            => cycle'.log[n].in_reply_to
                   = ThreadsBefore(threads, cycle', n)[
                         cycle'.log[n].platform].latest]_vars

\* What holds of the code: every attempt carries the token the state holds
\* for its platform, which is the token of the latest post the platform
\* accepted in a call of send_posts that returned.
RepliesToTokenOfState ==
    [][cycle'.kind = "processed"
        => \A n \in DOMAIN cycle'.log :
            \/ cycle'.log[n].about = "opener"
                   /\ cycle'.log[n].in_reply_to = NoToken
            \/ \E k \in EarlierOn(cycle'.log, n) :
                   /\ cycle'.log[k].about # cycle'.log[n].about
                   /\ cycle'.log[k].result = cycle'.log[n].in_reply_to
                   /\ \A j \in EarlierOn(cycle'.log, n) :
                        cycle'.log[j].about # cycle'.log[n].about => j <= k
            \/ /\ \A k \in EarlierOn(cycle'.log, n) :
                        cycle'.log[k].about = cycle'.log[n].about
               /\ ~cycle'.reset
               /\ cycle'.log[n].in_reply_to
                      = TokenGet(state.previous_post_ids,
                                 cycle'.log[n].platform)]_vars

(***************************************************************************)
(* The items the end of the meeting is tested on                           *)
(***************************************************************************)
\* the opener of the pass c was refused: the try statement was left before
\* eventitems was assigned
OpenerFailed(c) ==
    \E n \in DOMAIN c.log :
        c.log[n].about = "opener" /\ c.log[n].result = NoToken

\* C33: the test for the end of the meeting at the end of a pass reads in
\* eventitems the items of the snapshot fetched in that pass, also when the
\* try statement was left by an exception before the item list was read:
\* eventitems is neither the list of an earlier pass nor unbound.
C33_EndCheckUsesThisSnapshot ==
    [][cycle'.kind = "processed"
        => eventitems' = Bound(Backfilled(cycle'.snapshot))]_vars

\* What holds of the code: eventitems is the list of this pass's snapshot
\* when the opener was not refused, and what it was before the pass when
\* the opener was refused.
EndCheckUsesWhatLineAssigned ==
    [][cycle'.kind = "processed"
        => eventitems' = IF OpenerFailed(cycle') THEN eventitems
                         ELSE Bound(Backfilled(cycle'.snapshot))]_vars

(***************************************************************************)
(* A meeting that adjourns                                                 *)
(***************************************************************************)
\* a mover whose name is white space
MoverBlank == <<" ">>

\* The k-th item of the meeting: the third is the adjournment, which has no
\* agenda number of the kinds that are announced.
AdjournItem(k, flag, mover) ==
    [EventItemGuid |-> ThreeGuids[k],
     EventItemMatterId |-> Digits[k + 1],
     EventItemPassedFlag |-> flag,
     EventItemAgendaNumber |-> IF k = 3 THEN <<"X">> ELSE <<"B", Digits[k + 1]>>,
     EventItemTitle |-> TitleMinutes,
     EventItemInSiteURL |-> NoneText,
     EventItemActionName |-> IF k = 3 THEN ActionAdjourn ELSE ActionApproved,
     EventItemMover |-> mover,
     EventItemPassedFlagName |-> IF flag = Null THEN NoneText ELSE FlagNamePass,
     EventItemVoteInfo |-> <<>>]

\* The snapshots of the meeting: each item decided or not, the first moved
\* by a member with a name or with a blank one.
AdjournSnapshots ==
    {[EventId |-> "e1",
      EventItems |-> <<AdjournItem(1, f1, mover), AdjournItem(2, f2, MoverJaneDoe),
                       AdjournItem(3, f3, NoneText)>>] :
        f1 \in {Null, "1"}, f2 \in {Null, "1"}, f3 \in {Null, "1"},
        mover \in {MoverJaneDoe, MoverBlank}}

AdjournFailures ==
    {NoFailure} \cup [about : {"g2"}, platform : PlatformNames]

ProcessAdjourn == ProcessFrom(AdjournSnapshots, AdjournFailures)

NextAdjourn ==
    \/ Start
    \/ FetchFails
    \/ ProcessAdjourn

SpecAdjourn == Init /\ [][NextAdjourn]_vars

\* the items of the snapshot of the pass c that process_event_item is to
\* announce, known being the items known before the pass
Qualifying(c, known) ==
    {i \in DOMAIN Backfilled(c.snapshot) :
        Fires(Backfilled(c.snapshot)[i],
              PreviousOf(IF c.reset THEN <<>> ELSE known,
                         Backfilled(c.snapshot)[i].EventItemGuid))}

\* every item of the snapshot of c that is to be announced was published on
\* every platform, and state.json was written with the state
AllHandledAndWritten(c, known, written, kept) ==
    /\ \A i \in Qualifying(c, known), platform \in PlatformNames :
        \E n \in Published(c.log) :
            /\ c.log[n].about = Backfilled(c.snapshot)[i].EventItemGuid
            /\ c.log[n].platform = platform
    /\ written = kept

\* no publish of the pass c failed
NoPublishFails(c) == \A n \in DOMAIN c.log : c.log[n].result # NoToken

\* C34: in the pass whose snapshot holds the passed "Adjourn" item, when no
\* publish fails, every item of the snapshot that is to be announced is
\* published and state.json is written before the loop ends: the end of the
\* meeting is tested after all the items were handled and the state written.
C34_AdjournPassHandlesAllItems ==
    [][(/\ cycle'.kind = "processed"
        /\ SnapshotAdjourns(cycle'.snapshot)
        /\ NoPublishFails(cycle'))
        => /\ AllHandledAndWritten(cycle', state.known_event_items, file', state')
           /\ phase' = "ended"]_vars

\* What holds of the code: the same when nothing at all raises in the try
\* statement.
AdjournPassWithoutErrorHandlesAllItems ==
    [][(/\ cycle'.kind = "processed"
        /\ SnapshotAdjourns(cycle'.snapshot)
        /\ ~cycle'.raised)
        => /\ AllHandledAndWritten(cycle', state.known_event_items, file', state')
           /\ phase' = "ended"
           /\ \A i \in DOMAIN Backfilled(cycle'.snapshot) :
                file'.known_event_items[
                    Backfilled(cycle'.snapshot)[i].EventItemGuid]
                    = Backfilled(cycle'.snapshot)[i]]_vars

(***************************************************************************)
(* The loop of main over the live source, LegistarMinutesSource, whose     *)
(* clock is the clock of the machine and whose wait is time.sleep          *)
(***************************************************************************)
\* the source, the clock reading now: pc is "loop" at the top of the loop
\* of main and "fetched" when get_minutes() has returned event
LiveSource(now) ==
    [class |-> "LegistarMinutesSource", now |-> now, pc |-> "loop",
     event |-> NoSnapshot]

\* what the clock may read after a wait that started at now: a later time
\* (the latest time of Clock stands for every time after it)
AfterSleep(now) ==
    IF \E t \in Clock : t > now THEN {t \in Clock : t > now} ELSE {now}

\* the source after wait(60), at the top of the loop again
Slept(src) ==
    {[src EXCEPT !.now = later, !.pc = "loop", !.event = NoSnapshot] :
        later \in AfterSleep(src.now)}

InitLive ==
    /\ \E now \in Clock : ms = LiveSource(now)
    /\ tr = Idle
    /\ rn = Idle
    /\ fx = Idle
    /\ pe = Idle
    /\ at = Idle
    /\ cl = Idle
    /\ phase = "down"
    /\ state = EmptyState
    /\ eventitems = Unbound
    /\ file = NoFile
    /\ sent = [p \in PlatformNames |-> 0]
    /\ cycle = NoCycle("none")
    /\ decided = {}
    /\ threaded = FALSE
    /\ creds = {}
    /\ threads = NoThreads

\* main() is run once
LiveStart ==
    /\ phase = "down"
    /\ Start

\* get_minutes() raises: wait(60), continue
LiveFetchFails ==
    /\ phase = "running"
    /\ ms.pc = "loop"
    /\ cycle' = NoCycle("fetch_failed")
    /\ ms' \in Slept(ms)
    /\ UNCHANGED <<tr, rn, fx, pe, at, cl, phase, state, eventitems, file, sent,
                   decided, threaded, creds, threads>>

\* get_minutes() returns a snapshot
LiveFetchReturns ==
    /\ phase = "running"
    /\ ms.pc = "loop"
    /\ \E event \in Snapshots : ms' = [ms EXCEPT !.pc = "fetched", !.event = event]
    /\ UNCHANGED <<tr, rn, fx, pe, at, cl, main>>

\* now < meeting_start_time: wait(60), continue
LiveAwaitStart ==
    /\ phase = "running"
    /\ ms.pc = "fetched"
    /\ BeforeStart(ms.now)
    /\ cycle' = [NoCycle("awaiting_start") EXCEPT
                     !.event_id = ms.event.EventId, !.now = ms.now]
    /\ ms' \in Slept(ms)
    /\ UNCHANGED <<tr, rn, fx, pe, at, cl, phase, state, eventitems, file, sent,
                   decided, threaded, creds, threads>>

\* the pass from the try statement on, and wait(60) when the meeting has
\* not ended
LiveProcess ==
    /\ ms.pc = "fetched"
    /\ Pass({ms.event}, Failures, {ms.now})
    /\ \E slept \in Slept(ms) :
        ms' = IF phase' = "running" THEN slept
              ELSE [ms EXCEPT !.pc = "left", !.event = NoSnapshot]
    /\ UNCHANGED <<tr, rn, fx, pe, at, cl, creds>>

NextLive ==
    \/ LiveStart
    \/ LiveFetchFails
    \/ LiveFetchReturns
    \/ LiveAwaitStart
    \/ LiveProcess

\* the statements after the clock was read are run: the source is no
\* longer where get_minutes() left it
LeavesFetched ==
    /\ ms.pc = "fetched"
    /\ ms' \in Slept(ms) \cup {[ms EXCEPT !.pc = "left", !.event = NoSnapshot]}

\* main() is started, the statements of the loop are run one after the
\* other, and get_minutes() does not raise for ever.
SpecLive ==
    /\ InitLive
    /\ [][NextLive]_vars
    /\ WF_vars(LiveStart)
    /\ WF_vars(LiveFetchReturns)
    /\ WF_ms(LeavesFetched)

\* C35: with the live source, whose clock advances at every wait and whose
\* calls return, the loop of main reaches its normal end, at the latest at
\* the end of the first pass that processes a snapshot with the clock
\* reading more than twelve hours after the start of the meeting, whatever
\* the snapshots hold and whatever fetch or publish fails.
C35_FailsafeEndsLoop ==
    /\ <>(phase = "ended")
    /\ [][(cycle'.kind = "processed" /\ Late(cycle'.now))
            => phase' = "ended"]_vars

\* What holds of the code: the loop is left, by its normal end or by the
\* UnboundLocalError of line 821, and a pass later than twelve hours after
\* the start leaves it.
FailsafeEndsOrCrashes ==
    /\ <>(phase \in {"ended", "crashed"})
    /\ [][(cycle'.kind = "processed" /\ Late(cycle'.now))
            => phase' \in {"ended", "crashed"}]_vars

\* What holds of the code: the loop ends normally when the first pass that
\* processes a snapshot publishes the opener.
FailsafeEndsAfterOpener ==
    [](phase = "crashed" => cycle.first /\ OpenerFailed(cycle))

====
